---- MODULE Spec2Model ----
(***************************************************************************)
(* kmhd2spotify: the sync engine.                                          *)
(*                                                                         *)
(*   Spec      the sync scheduler (cmd sync): runSync,                      *)
(*             getOrCreateMonthlyPlaylist, runContinuousSync,               *)
(*             runSingleSync, filterNewSongs, syncSongsToSpotify            *)
(*   FairSpec  Spec with weak fairness of the scheduler's steps             *)
(*   SpecFetch the feed client: KMHDAPIClient.FetchPlaylist                 *)
(*                                                                         *)
(* Confidences are integers: thousandths for the three components,          *)
(* millionths for the weighted overall value (0.5 is 500000).               *)
(***************************************************************************)
EXTENDS Integers, Sequences, FiniteSets, TLC

VARIABLES
    \* ---- scheduler (cmd/sync) ----
    pc,               \* position of the sync command's control flow
    continuous,       \* --continuous flag
    prefix,           \* conf.Spotify.PlaylistNamePrefix
    now,              \* the wall clock's calendar month, [year, month]
    ticks,            \* month changes so far
    userPlaylists,    \* the remote account's playlists, in listing order
    targetPlaylist,   \* runSync's targetPlaylist
    createCalls,      \* CreatePlaylist calls made
    globalSeenSongs,  \* package variable globalSeenSongs (its key set)
    seenSongs,        \* the cycle map handed to runSingleSync
    lastFeed,         \* the collection the latest successful fetch returned
    fetchResult,      \* outcome of the latest ScrapePlaylist call
    newSongs,         \* runSingleSync's newSongs
    i,                \* syncSongsToSpotify's loop index (1-based)
    songMatch,        \* the current record's matcher result
    existing,         \* the current record's membership check result
    syncedCount,
    skippedCount,
    outcomes,         \* per record of this cycle, how its iteration ended
    callLog,          \* the catalog calls of this cycle, in call order
    timesNew,         \* per key, how often filterNewSongs returned it as new
    nextSyncDuration, \* runContinuousSync's nextSyncDuration, in seconds
    \* ---- feed client (FetchPlaylist) ----
    fpc,              \* position inside FetchPlaylist
    attempt,          \* the retry loop's attempt counter
    responses,        \* what the server answered to each request, in order
    waits,            \* the time.Sleep durations of this call, in seconds
    resp,             \* the latest attempt's (err, resp) pair
    body,             \* the body of the response, as the decoder will see it
    fetchReturn,      \* what FetchPlaylist returned
    \* ---- getOrCreateMonthlyPlaylist, called on its own ----
    resolveCalls,     \* calls made so far
    resolved,         \* what the latest call met and returned
    createLog,        \* the names passed to CreatePlaylist, in call order
    \* ---- KMHDAPIClient.parseResponse ----
    ppc,              \* position inside parseResponse
    apiResponse,      \* the raw entries of the decoded array
    rawIndex,         \* the range loop's index (1-based)
    collection,       \* collection.Songs
    parseReturn,      \* what parseResponse returned
    \* ---- calculateMatchConfidence and calculateAlbumConfidence ----
    cpc,              \* which of the two functions have returned
    query,            \* the query argument
    track,            \* the track argument (its name is the item name)
    fuzzyScore,       \* the score fuzzy.Find gives the pair when it matches
    matchResult,  \* calculateMatchConfidence(query, track.Name)
    albumResult,      \* calculateAlbumConfidence(query, track)
    \* ---- FuzzySongSearcher.FindBestSongMatchWithAlbum ----
    mpc,              \* position inside the matcher
    wrapped,          \* whether the call came through FindBestSongMatch
    artistQuery,
    songQuery,
    albumQuery,
    foundArtist,      \* the name of the artist SearchArtist returns
    topTracks,        \* the tracks GetArtistTopTracks returns
    artistConf,       \* artistConfidence
    ti,               \* the loop's index (1-based)
    best,             \* bestTrack and its three confidences
    matchLog,         \* per scored track, the confidences calculated for it
    matchReturn,      \* what the matcher returned
    catalogCalls,     \* the calls of the catalog made by the matcher, in order
    \* ---- DuplicateService.CheckDuplicates ----
    dpc,              \* position inside CheckDuplicates
    dupTracks,        \* the tracks argument
    existsResults,    \* what the remote membership check answered
    remoteChecks,     \* the CheckTracksInPlaylist calls made, in order
    dupReturn,        \* what CheckDuplicates returned
    acpc,             \* position inside CheckArtistInPlaylist ("off": not called)
    topTracksAnswer,  \* what GetArtistTopTracks answered
    artistReturn,     \* what CheckArtistInPlaylist returned
    \* ---- PlaylistService.AddArtistToPlaylist ----
    apc,              \* position inside AddArtistToPlaylist
    force,            \* the force argument
    hasDetector,      \* p.duplicate != nil
    artistTracks,     \* the artist's top tracks
    detectorAnswer,   \* what CheckArtistInPlaylist answered, if it was asked
    serviceCalls,     \* the calls made to the remote service and the detector
    addReturn,        \* what AddArtistToPlaylist returned
    \* ---- calculateNextSyncTime with generateSecureRandomInt ----
    tpc,              \* position inside calculateNextSyncTime
    interval,         \* the base interval, in milliseconds
    randErr,          \* rand.Int fails
    randValue,        \* what rand.Int draws when it succeeds
    clock,            \* time.Now().UnixNano()
    offset,           \* what generateSecureRandomInt returned
    delay,            \* what calculateNextSyncTime returned, in milliseconds
    \* ---- Song.IsValid ----
    vpc,              \* position inside IsValid
    candidate,        \* the song IsValid is called on
    validResult,      \* what IsValid returned
    \* ---- filterNewSongs on a feed of two records ----
    kpc,              \* position inside filterNewSongs
    recordPair,       \* the two records of the feed
    pairResult,       \* what filterNewSongs returned for them
    upc,              \* position inside CompleteAuth
    authClient,       \* the Client's fields and the content of its token file
    givenState,       \* the state parameter of the call
    authBefore,       \* IsAuthenticated() when CompleteAuth was called
    authErr,          \* the error CompleteAuth returned ("": nil)
    authCalls         \* the number of calls of CompleteAuth so far

schedVars == <<pc, continuous, prefix, now, ticks, userPlaylists, targetPlaylist,
               createCalls, globalSeenSongs, seenSongs, lastFeed, fetchResult,
               newSongs, i, songMatch, existing, syncedCount, skippedCount,
               outcomes, callLog, timesNew, nextSyncDuration>>
fetchVars == <<fpc, attempt, responses, waits, resp, body, fetchReturn>>
resolveVars == <<resolveCalls, resolved, createLog>>
parseVars == <<ppc, apiResponse, rawIndex, collection, parseReturn>>
confVars == <<cpc, query, track, fuzzyScore, matchResult, albumResult>>
matchVars == <<mpc, wrapped, artistQuery, songQuery, albumQuery, foundArtist, topTracks,
               artistConf, ti, best, matchLog, matchReturn, catalogCalls>>
dupVars ==
    <<dpc, dupTracks, existsResults, remoteChecks, dupReturn,
      acpc, topTracksAnswer, artistReturn>>
addVars ==
    <<apc, force, hasDetector, artistTracks, detectorAnswer, serviceCalls, addReturn>>
delayVars == <<tpc, interval, randErr, randValue, clock, offset, delay>>
validVars == <<vpc, candidate, validResult>>
keyVars == <<kpc, recordPair, pairResult>>
authVars == <<upc, authClient, givenState, authBefore, authErr, authCalls>>
\* The state of the functions that are examined on their own.
unitVars ==
    <<resolveVars, parseVars, confVars, matchVars, dupVars, addVars, delayVars, validVars, keyVars, authVars>>
\* What the steps of each of them leave alone.
restOfResolve ==
    <<fetchVars, parseVars, confVars, matchVars, dupVars, addVars, delayVars, validVars, keyVars, authVars>>
restOfParse ==
    <<schedVars, fetchVars, resolveVars, confVars, matchVars, dupVars, addVars, delayVars, validVars, keyVars, authVars>>
restOfConf ==
    <<schedVars, fetchVars, resolveVars, parseVars, matchVars, dupVars, addVars, delayVars, validVars, keyVars, authVars>>
restOfMatch ==
    <<schedVars, fetchVars, resolveVars, parseVars, confVars, dupVars, addVars, delayVars, validVars, keyVars, authVars>>
restOfDup ==
    <<schedVars, fetchVars, resolveVars, parseVars, confVars, matchVars, addVars, delayVars, validVars, keyVars, authVars>>
restOfAdd ==
    <<schedVars, fetchVars, resolveVars, parseVars, confVars, matchVars, dupVars, delayVars, validVars, keyVars, authVars>>
restOfDelay ==
    <<schedVars, fetchVars, resolveVars, parseVars, confVars, matchVars, dupVars, addVars, validVars, keyVars, authVars>>
restOfValid ==
    <<schedVars, fetchVars, resolveVars, parseVars, confVars, matchVars, dupVars, addVars, delayVars, keyVars, authVars>>
restOfKey ==
    <<schedVars, fetchVars, resolveVars, parseVars, confVars, matchVars, dupVars, addVars, delayVars, validVars, authVars>>
restOfAuth ==
    <<schedVars, fetchVars, resolveVars, parseVars, confVars, matchVars, dupVars, addVars, delayVars, validVars, keyVars>>
vars == <<schedVars, fetchVars, unitVars>>

-----------------------------------------------------------------------------
(* Bounds of the model *)

MaxFeedLen == 2
MaxTicks == 1
MaxResolveCalls == 2
MaxEntries == 2
MaxTracks == 2
MaxDupTracks == 2

-----------------------------------------------------------------------------
(* types.Song *)

Song(artist, title, album) == [Artist |-> artist, Title |-> title, Album |-> album]

\* The records a feed may hold: two valid ones with different keys and one
\* invalid one (empty artist).
Songs ==
    { Song("A", "T", "X"),
      Song("B", "T", ""),
      Song("", "T", "") }

\* Strings of white space only, the empty one included.
BlankStrings == { "", " ", "   ", "\t" }

IsValid_IgnoresBlanks(s) == s.Artist \notin BlankStrings /\ s.Title \notin BlankStrings

IsValid_ArtistOnly(s) == s.Artist # ""

IsValid(s) == s.Artist # "" /\ s.Title # ""

SongKey(song) == song.Artist \o " - " \o song.Title

Keys == { SongKey(s) : s \in { t \in Songs : IsValid(t) } }

RECURSIVE SeqsUpTo(_, _)
SeqsUpTo(S, n) ==
    IF n = 0 THEN { <<>> }
    ELSE LET shorter == SeqsUpTo(S, n - 1)
         IN  shorter \cup { Append(q, x) : q \in { r \in shorter : Len(r) = n - 1 }, x \in S }

Feeds == SeqsUpTo(Songs, MaxFeedLen)

-----------------------------------------------------------------------------
(* filterNewSongs *)

SeenBefore_CycleOnly(songKey, cycleSeen, globalSeen) == songKey \in cycleSeen

SeenBefore(songKey, cycleSeen, globalSeen) ==
    songKey \in cycleSeen \/ songKey \in globalSeen

RECURSIVE filterLoop(_, _, _)
filterLoop(songs, k, acc) ==
    IF k > Len(songs) THEN acc
    ELSE LET song == songs[k]
             songKey == SongKey(song)
         IN  IF ~IsValid(song) THEN filterLoop(songs, k + 1, acc)
             ELSE IF SeenBefore(songKey, acc.seenSongs, acc.globalSeenSongs)
                  THEN filterLoop(songs, k + 1, acc)
             ELSE filterLoop(songs, k + 1,
                     [newSongs |-> Append(acc.newSongs, song),
                      seenSongs |-> acc.seenSongs \cup {songKey},
                      globalSeenSongs |-> acc.globalSeenSongs \cup {songKey}])

filterNewSongs_CycleOnly(songs, cycleSeen, globalSeen) ==
    [filterLoop(songs, 1,
        [newSongs |-> <<>>, seenSongs |-> cycleSeen, globalSeenSongs |-> globalSeen])
     EXCEPT !.globalSeenSongs = globalSeen]

filterNewSongs_GlobalOnly(songs, cycleSeen, globalSeen) ==
    [filterLoop(songs, 1,
        [newSongs |-> <<>>, seenSongs |-> cycleSeen, globalSeenSongs |-> globalSeen])
     EXCEPT !.seenSongs = cycleSeen]

filterNewSongs(songs, cycleSeen, globalSeen) ==
    filterLoop(songs, 1,
        [newSongs |-> <<>>, seenSongs |-> cycleSeen, globalSeenSongs |-> globalSeen])

-----------------------------------------------------------------------------
(* The clock and the monthly playlist name *)

NextMonth(t) ==
    IF t.month = 12 THEN [year |-> t.year + 1, month |-> 1]
    ELSE [year |-> t.year, month |-> t.month + 1]

PadZeros_None(s, width) == s

\* %04d and %02d: zeros on the left up to the width.
RECURSIVE PadZeros(_, _)
PadZeros(s, width) == IF Len(s) >= width THEN s ELSE PadZeros("0" \o s, width)

\* fmt.Sprintf("%s-%04d-%02d", prefix, now.Year(), now.Month())
monthlyPlaylistName(playlistNamePrefix, t) ==
    playlistNamePrefix \o "-" \o PadZeros(ToString(t.year), 4)
                       \o "-" \o PadZeros(ToString(t.month), 2)

-----------------------------------------------------------------------------
(* The remote account: playlists and their tracks *)

TrackIDs == { "t1", "t2" }

Playlist(id, name, tracks) == [ID |-> id, Name |-> name, Tracks |-> tracks]

NoPlaylist == [ID |-> "", Name |-> ""]

Handle(p) == [ID |-> p.ID, Name |-> p.Name]

\* The process starts in December, so that the first month change is also a
\* change of year.
StartMonths == { [year |-> 2025, month |-> 12] }

\* The playlist lists an account may start with.
InitialPlaylists ==
    { <<>>,
      << Playlist("pl1", "Other", {"t1"}) >>,
      << Playlist("pl1", "Other", {}), Playlist("pl2", "KMHD-2025-12", {"t1"}) >> }

TracksOf(playlists, playlistID) ==
    UNION { playlists[k].Tracks : k \in { n \in 1..Len(playlists) : playlists[n].ID = playlistID } }

\* Client.CreatePlaylist: the new playlist is listed after the existing ones.
CreatePlaylist(playlists, name) ==
    Append(playlists, Playlist("pl" \o ToString(Len(playlists) + 1), name, {}))

\* Client.CheckTracksInPlaylist: one flag per track id, in input order.
CheckTracksInPlaylist(playlists, playlistID, trackIDs, ok) ==
    IF ~ok THEN [err |-> TRUE, flags |-> <<>>]
    ELSE [err |-> FALSE,
          flags |-> [k \in 1..Len(trackIDs) |-> trackIDs[k] \in TracksOf(playlists, playlistID)]]

\* Client.AddTracksToPlaylist, when the call succeeds.
AddTracksToPlaylist(playlists, playlistID, trackIDs) ==
    [k \in 1..Len(playlists) |->
        IF playlists[k].ID = playlistID
        THEN [playlists[k] EXCEPT !.Tracks = @ \cup { trackIDs[n] : n \in 1..Len(trackIDs) }]
        ELSE playlists[k]]

-----------------------------------------------------------------------------
(* getOrCreateMonthlyPlaylist *)

FirstNamed_None(playlists, name) == 0

\* The range loop: the first listed playlist whose name equals name, 0 if none.
FirstNamed(playlists, name) ==
    LET hits == { k \in 1..Len(playlists) : playlists[k].Name = name }
    IN  IF hits = {} THEN 0 ELSE CHOOSE k \in hits : \A n \in hits : k <= n

UsesFirstPlaylist_Never(playlistNamePrefix) == FALSE

\* if playlistNamePrefix == ""
UsesFirstPlaylist(playlistNamePrefix) == playlistNamePrefix = ""

\* listOK, createOK: whether GetUserPlaylists and CreatePlaylist succeed.
\* reason tells the three error returns apart; createName is the name passed
\* to CreatePlaylist when the call is made.
getOrCreateMonthlyPlaylist(playlistNamePrefix, t, playlists, listOK, createOK) ==
    LET failed == [err |-> TRUE, playlist |-> NoPlaylist, playlists |-> playlists,
                   created |-> 0, reason |-> "list", createName |-> ""]
        name == monthlyPlaylistName(playlistNamePrefix, t)
        found == FirstNamed(playlists, name)
    IN  IF ~listOK THEN failed
        ELSE IF UsesFirstPlaylist(playlistNamePrefix)
             THEN IF Len(playlists) = 0 THEN [failed EXCEPT !.reason = "no_playlists"]
                  ELSE [err |-> FALSE, playlist |-> Handle(playlists[1]),
                        playlists |-> playlists, created |-> 0, reason |-> "",
                        createName |-> ""]
        ELSE IF found # 0
             THEN [err |-> FALSE, playlist |-> Handle(playlists[found]),
                   playlists |-> playlists, created |-> 0, reason |-> "",
                   createName |-> ""]
        ELSE IF ~createOK
             THEN [failed EXCEPT !.created = 1, !.reason = "create", !.createName = name]
        ELSE LET after == CreatePlaylist(playlists, name)
             IN  [err |-> FALSE, playlist |-> Handle(after[Len(after)]),
                  playlists |-> after, created |-> 1, reason |-> "",
                  createName |-> name]

-----------------------------------------------------------------------------
(* The matcher's result, as syncSongsToSpotify sees it *)

ConfidenceThreshold == 500000

OverallConfidence_EqualWeights(artistConfidence, songConfidence, albumConfidence) ==
    (artistConfidence + songConfidence + albumConfidence) * 333

OverallConfidence_SongFirst(artistConfidence, songConfidence, albumConfidence) ==
    artistConfidence * 350 + songConfidence * 500 + albumConfidence * 150

\* (artistConfidence * 0.5) + (songConfidence * 0.35) + (albumConfidence * 0.15)
OverallConfidence(artistConfidence, songConfidence, albumConfidence) ==
    artistConfidence * 500 + songConfidence * 350 + albumConfidence * 150

\* Component confidences (artist, song, album) a match may carry: overall
\* 0.16, 0.45, exactly 0.5, and 1.0.
ConfidenceTriples ==
    { <<100, 100, 500>>, <<800, 100, 100>>, <<500, 500, 500>>, <<1000, 1000, 1000>> }

NoMatch ==
    [err |-> TRUE, TrackID |-> "", ArtistConfidence |-> 0, SongConfidence |-> 0,
     AlbumConfidence |-> 0, OverallConfidence |-> 0]

SongMatch(trackID, c) ==
    [err |-> FALSE, TrackID |-> trackID, ArtistConfidence |-> c[1], SongConfidence |-> c[2],
     AlbumConfidence |-> c[3], OverallConfidence |-> OverallConfidence(c[1], c[2], c[3])]

\* What FindBestSongMatchWithAlbum may return: an error, or a match on one of
\* the catalog's tracks.
FindBestSongMatchWithAlbum ==
    { NoMatch } \cup { SongMatch(t, c) : t \in TrackIDs, c \in ConfidenceTriples }

NoCheck == [err |-> FALSE, flags |-> <<>>]

-----------------------------------------------------------------------------
(* calculateNextSyncTime *)

MaxRandomOffset == 3600
BaseInterval == 3600

\* generateSecureRandomInt(3600) returns a value in [0, 3600); the ends of the
\* range and one inner value stand for it.
RandomOffsets == { 0, 1, MaxRandomOffset - 1 }

calculateNextSyncTime(baseInterval, randomOffset) == baseInterval + randomOffset

-----------------------------------------------------------------------------
(* syncSongsToSpotify: the decisions of one loop iteration *)

IsLowConfidence_Lenient(m) == m.OverallConfidence < 400000

\* if songMatch.OverallConfidence < 0.5
IsLowConfidence(m) == m.OverallConfidence < ConfidenceThreshold

AlreadyInPlaylist_Never(e) == FALSE

AlreadyInPlaylist_Absent(e) == ~e.err /\ Len(e.flags) > 0 /\ ~e.flags[1]

AlreadyInPlaylist_OrCheckFailed(e) == e.err \/ (Len(e.flags) > 0 /\ e.flags[1])

\* if err != nil { warn, go on } else if len(existing) > 0 && existing[0] { skip }
AlreadyInPlaylist(e) == ~e.err /\ Len(e.flags) > 0 /\ e.flags[1]

Failures == { "no_match", "low_confidence", "write_failed" }

EndOfCycle_Exit(cont) == "done"

EndOfCycle_AlwaysSchedule(cont) == "schedule"

\* runSingleSync returns: into runContinuousSync's loop, or out of runSync.
EndOfCycle(cont) == IF cont THEN "schedule" ELSE "done"

AfterRecord_BreakOnFailure(outcome, k, n, cont) ==
    IF k < n /\ outcome \notin Failures THEN "match" ELSE EndOfCycle(cont)

AfterRecord_RestartCycle(outcome, k, n, cont) ==
    IF k < n THEN "match" ELSE IF cont THEN "fetch" ELSE "done"

\* continue / fall off the loop body: the next record if there is one.
AfterRecord(outcome, k, n, cont) ==
    IF k < n THEN "match" ELSE EndOfCycle(cont)

Call(op, rec, result) == [op |-> op, rec |-> rec, result |-> result]

CountsAsSynced_OrDuplicate(outcome) == outcome \in { "synced", "duplicate" }

\* syncedCount++ after the write returned without error; every other way out
\* of the iteration is skippedCount++.
CountsAsSynced(outcome) == outcome = "synced"

\* The iteration of record i ends with `outcome`.
RecordDone(outcome) ==
    /\ outcomes' = Append(outcomes, outcome)
    /\ pc' = AfterRecord(outcome, i, Len(newSongs), continuous)
    /\ i' = IF pc' = "match" THEN i + 1 ELSE i
    /\ syncedCount' = IF CountsAsSynced(outcome) THEN syncedCount + 1 ELSE syncedCount
    /\ skippedCount' = IF CountsAsSynced(outcome) THEN skippedCount ELSE skippedCount + 1
    /\ songMatch' = NoMatch
    /\ existing' = NoCheck

-----------------------------------------------------------------------------
(* The scheduler's steps *)

\* runSync, from the resolved services to the first cycle.
RunSync ==
    /\ pc = "resolve"
    /\ \E listOK \in BOOLEAN, createOK \in BOOLEAN :
          LET r == getOrCreateMonthlyPlaylist(prefix, now, userPlaylists, listOK, createOK)
          IN  /\ userPlaylists' = r.playlists
              /\ targetPlaylist' = r.playlist
              /\ createCalls' = createCalls + r.created
              /\ pc' = IF r.err THEN "done" ELSE "fetch"
    /\ UNCHANGED <<continuous, prefix, now, ticks, globalSeenSongs, seenSongs, lastFeed,
                   fetchResult, newSongs, i, songMatch, existing, syncedCount,
                   skippedCount, outcomes, callLog, timesNew, nextSyncDuration>>
    /\ UNCHANGED <<fetchVars, unitVars>>

Occurrences(songs, k) == Cardinality({ n \in 1..Len(songs) : SongKey(songs[n]) = k })

\* timesNew after filterNewSongs returned `songs`; counting stops at 2.
Bump(count, songs) ==
    [k \in Keys |->
        IF count[k] + Occurrences(songs, k) > 2 THEN 2 ELSE count[k] + Occurrences(songs, k)]

CycleAborts_OnlyWhenEmpty(fetchOK, songs) == Len(songs) = 0

\* if err != nil { return }   if len(songCollection.Songs) == 0 { return }
CycleAborts(fetchOK, songs) == ~fetchOK \/ Len(songs) = 0

\* runSingleSync up to the first catalog call: fetch, filter, enter the loop.
RunSingleSync ==
    /\ pc = "fetch"
    /\ \E fetchOK \in BOOLEAN, songs \in Feeds :
          /\ fetchResult' = IF fetchOK THEN "ok" ELSE "error"
          /\ lastFeed' = IF fetchOK THEN [fetched |-> TRUE, songs |-> songs] ELSE lastFeed
          /\ IF CycleAborts(fetchOK, songs)
             THEN /\ pc' = EndOfCycle(continuous)
                  /\ UNCHANGED <<seenSongs, globalSeenSongs, newSongs, timesNew, i>>
             ELSE LET f == filterNewSongs(songs, seenSongs, globalSeenSongs)
                  IN  /\ seenSongs' = f.seenSongs
                      /\ globalSeenSongs' = f.globalSeenSongs
                      /\ newSongs' = f.newSongs
                      /\ timesNew' = Bump(timesNew, f.newSongs)
                      /\ i' = IF Len(f.newSongs) = 0 THEN 0 ELSE 1
                      /\ pc' = IF Len(f.newSongs) = 0
                               THEN EndOfCycle(continuous) ELSE "match"
    /\ UNCHANGED <<continuous, prefix, now, ticks, userPlaylists, targetPlaylist,
                   createCalls, songMatch, existing, syncedCount, skippedCount,
                   outcomes, callLog, nextSyncDuration>>
    /\ UNCHANGED <<fetchVars, unitVars>>

\* songMatch, err := fuzzySongSearcher.FindBestSongMatchWithAlbum(...)
Match ==
    /\ pc = "match"
    /\ \E m \in FindBestSongMatchWithAlbum :
          /\ callLog' = Append(callLog,
                 Call("FindBestSongMatchWithAlbum", i, IF m.err THEN "error" ELSE "ok"))
          /\ IF m.err THEN RecordDone("no_match")
             ELSE IF IsLowConfidence(m) THEN RecordDone("low_confidence")
             ELSE /\ songMatch' = m
                  /\ pc' = "check"
                  /\ UNCHANGED <<i, existing, syncedCount, skippedCount, outcomes>>
    /\ UNCHANGED <<continuous, prefix, now, ticks, userPlaylists, targetPlaylist,
                   createCalls, globalSeenSongs, seenSongs, lastFeed, fetchResult,
                   newSongs, timesNew, nextSyncDuration>>
    /\ UNCHANGED <<fetchVars, unitVars>>

\* existing, err := spotifyService.CheckTracksInPlaylist(targetPlaylist.ID, trackIDs)
Check ==
    /\ pc = "check"
    /\ \E ok \in BOOLEAN :
          LET e == CheckTracksInPlaylist(userPlaylists, targetPlaylist.ID,
                                         <<songMatch.TrackID>>, ok)
          IN  /\ callLog' = Append(callLog,
                     Call("CheckTracksInPlaylist", i,
                          IF e.err THEN "error"
                          ELSE IF Len(e.flags) > 0 /\ e.flags[1] THEN "present" ELSE "absent"))
              /\ IF AlreadyInPlaylist(e) THEN RecordDone("duplicate")
                 ELSE /\ existing' = e
                      /\ pc' = "add"
                      /\ UNCHANGED <<i, songMatch, syncedCount, skippedCount, outcomes>>
    /\ UNCHANGED <<continuous, prefix, now, ticks, userPlaylists, targetPlaylist,
                   createCalls, globalSeenSongs, seenSongs, lastFeed, fetchResult,
                   newSongs, timesNew, nextSyncDuration>>
    /\ UNCHANGED <<fetchVars, unitVars>>

\* err = spotifyService.AddTracksToPlaylist(targetPlaylist.ID, trackIDs)
Add ==
    /\ pc = "add"
    /\ \E ok \in BOOLEAN :
          /\ callLog' = Append(callLog,
                 Call("AddTracksToPlaylist", i, IF ok THEN "ok" ELSE "error"))
          /\ userPlaylists' =
                 IF ok THEN AddTracksToPlaylist(userPlaylists, targetPlaylist.ID,
                                                <<songMatch.TrackID>>)
                 ELSE userPlaylists
          /\ RecordDone(IF ok THEN "synced" ELSE "write_failed")
    /\ UNCHANGED <<continuous, prefix, now, ticks, targetPlaylist, createCalls,
                   globalSeenSongs, seenSongs, lastFeed, fetchResult, newSongs,
                   timesNew, nextSyncDuration>>
    /\ UNCHANGED <<fetchVars, unitVars>>

\* runSingleSync has returned (its locals are gone); the loop of
\* runContinuousSync computes nextSyncDuration := calculateNextSyncTime(interval)
Schedule ==
    /\ pc = "schedule"
    /\ \E randomOffset \in RandomOffsets :
          nextSyncDuration' = calculateNextSyncTime(BaseInterval, randomOffset)
    /\ pc' = "sleep"
    /\ newSongs' = <<>>
    /\ i' = 0
    /\ syncedCount' = 0
    /\ skippedCount' = 0
    /\ outcomes' = <<>>
    /\ callLog' = <<>>
    /\ UNCHANGED <<continuous, prefix, now, ticks, userPlaylists, targetPlaylist,
                   createCalls, globalSeenSongs, seenSongs, lastFeed, fetchResult,
                   songMatch, existing, timesNew>>
    /\ UNCHANGED <<fetchVars, unitVars>>

NewCycleMap_Reused(previous) == previous

\* cycleSeen := make(map[string]bool), whatever the previous cycle's map held.
NewCycleMap(previous) == {}

\* time.Sleep(nextSyncDuration); cycleSeen := make(map[string]bool)
Sleep ==
    /\ pc = "sleep"
    /\ pc' = "fetch"
    /\ seenSongs' = NewCycleMap(seenSongs)
    /\ nextSyncDuration' = 0
    /\ fetchResult' = "none"
    /\ UNCHANGED <<continuous, prefix, now, ticks, userPlaylists, targetPlaylist,
                   createCalls, globalSeenSongs, lastFeed, newSongs, i,
                   songMatch, existing, syncedCount, skippedCount, outcomes, callLog,
                   timesNew>>
    /\ UNCHANGED <<fetchVars, unitVars>>

\* The calendar month changes while the process runs.
Tick ==
    /\ pc # "done"
    /\ ticks < MaxTicks
    /\ now' = NextMonth(now)
    /\ ticks' = ticks + 1
    /\ UNCHANGED <<pc, continuous, prefix, userPlaylists, targetPlaylist, createCalls,
                   globalSeenSongs, seenSongs, lastFeed, fetchResult, newSongs, i,
                   songMatch, existing, syncedCount, skippedCount, outcomes, callLog,
                   timesNew, nextSyncDuration>>
    /\ UNCHANGED <<fetchVars, unitVars>>

SchedulerStep == RunSync \/ RunSingleSync \/ Match \/ Check \/ Add \/ Schedule \/ Sleep

InitScheduler ==
    /\ pc = "resolve"
    /\ continuous \in BOOLEAN
    /\ prefix \in { "", "KMHD" }
    /\ now \in StartMonths
    /\ ticks = 0
    /\ userPlaylists \in InitialPlaylists
    /\ targetPlaylist = NoPlaylist
    /\ createCalls = 0
    /\ globalSeenSongs = {}
    /\ seenSongs = {}
    /\ lastFeed = [fetched |-> FALSE, songs |-> <<>>]
    /\ fetchResult = "none"
    /\ newSongs = <<>>
    /\ i = 0
    /\ songMatch = NoMatch
    /\ existing = NoCheck
    /\ syncedCount = 0
    /\ skippedCount = 0
    /\ outcomes = <<>>
    /\ callLog = <<>>
    /\ timesNew = [k \in Keys |-> 0]
    /\ nextSyncDuration = 0

FetchIdle ==
    /\ fpc = "idle"
    /\ attempt = 0
    /\ responses = <<>>
    /\ waits = <<>>
    /\ resp = [err |-> TRUE, StatusCode |-> 0]
    /\ body = "none"
    /\ fetchReturn = [err |-> "", value |-> "pending"]

ResolveIdle ==
    /\ resolveCalls = 0
    /\ resolved = [listOK |-> TRUE, err |-> FALSE, reason |-> ""]
    /\ createLog = <<>>

ParseIdle ==
    /\ ppc = "idle"
    /\ apiResponse = <<>>
    /\ rawIndex = 0
    /\ collection = <<>>
    /\ parseReturn = [err |-> FALSE, value |-> "pending"]

ConfidenceIdle ==
    /\ cpc = {"idle"}
    /\ query = ""
    /\ track = [nil |-> TRUE, Name |-> "", Album |-> ""]
    /\ fuzzyScore = 0
    /\ matchResult = 0
    /\ albumResult = 0

MatcherIdle ==
    /\ mpc = "idle"
    /\ wrapped = FALSE
    /\ artistQuery = "" /\ songQuery = "" /\ albumQuery = ""
    /\ foundArtist = ""
    /\ topTracks = <<>>
    /\ artistConf = 0
    /\ ti = 0
    /\ best = [index |-> 0, song |-> 0, album |-> 0, overall |-> 0]
    /\ matchLog = <<>>
    /\ matchReturn = [err |-> "pending"]
    /\ catalogCalls = <<>>

DuplicatesIdle ==
    /\ dpc = "idle"
    /\ dupTracks = <<>>
    /\ existsResults = [err |-> FALSE, flags |-> <<>>]
    /\ remoteChecks = <<>>
    /\ dupReturn = [err |-> FALSE, result |-> "pending"]
    /\ acpc = "off"
    /\ topTracksAnswer = [err |-> FALSE, tracks |-> <<>>, artists |-> <<>>]
    /\ artistReturn = [err |-> FALSE, result |-> "pending"]

AddArtistIdle ==
    /\ apc = "idle"
    /\ force = FALSE
    /\ hasDetector = FALSE
    /\ artistTracks = <<>>
    /\ detectorAnswer =
           [err |-> FALSE, nil |-> TRUE, HasDuplicates |-> FALSE, Message |-> "not asked"]
    /\ serviceCalls = <<>>
    /\ addReturn = [err |-> "", result |-> "pending"]

DelayIdle ==
    /\ tpc = "idle"
    /\ interval = 0
    /\ randErr = FALSE
    /\ randValue = 0
    /\ clock = 0
    /\ offset = 0
    /\ delay = 0

ValidIdle ==
    /\ vpc = "idle"
    /\ candidate = [Artist |-> "", Title |-> "", Album |-> ""]
    /\ validResult = FALSE

KeyIdle ==
    /\ kpc = "idle"
    /\ recordPair = <<>>
    /\ pairResult = <<>>

AuthIdle ==
    /\ upc = "idle"
    /\ authClient = [client |-> "nil", token |-> "nil", isUserAuth |-> FALSE,
                     tokenFile |-> "", saved |-> "none"]
    /\ givenState = ""
    /\ authBefore = FALSE
    /\ authErr = ""
    /\ authCalls = 0

\* Every function that is examined on its own is idle, except the named one.
OthersIdle(unit) ==
    /\ unit = "resolve" \/ ResolveIdle
    /\ unit = "parse" \/ ParseIdle
    /\ unit = "confidence" \/ ConfidenceIdle
    /\ unit = "matcher" \/ MatcherIdle
    /\ unit = "duplicates" \/ DuplicatesIdle
    /\ unit = "add" \/ AddArtistIdle
    /\ unit = "delay" \/ DelayIdle
    /\ unit = "valid" \/ ValidIdle
    /\ unit = "key" \/ KeyIdle
    /\ unit = "auth" \/ AuthIdle

\* No function is being examined on its own.
UnitsIdle == OthersIdle("none")

Init == InitScheduler /\ FetchIdle /\ UnitsIdle

Next == RunSync \/ RunSingleSync \/ Match \/ Check \/ Add \/ Schedule \/ Sleep \/ Tick

Spec == Init /\ [][Next]_vars

\* The sync command is one sequential control flow and every call it makes
\* returns, so a step that is enabled is eventually taken. Continuous mode only.
InitContinuous == Init /\ continuous

FairSpec == InitContinuous /\ [][Next]_vars /\ WF_vars(SchedulerStep)

\* Single-pass mode: runSync calls runSingleSync once and returns, so the loop
\* of runContinuousSync takes no step.
InitSingle == Init /\ ~continuous

SingleStep == RunSync \/ RunSingleSync \/ Match \/ Check \/ Add

NextSingle == RunSync \/ RunSingleSync \/ Match \/ Check \/ Add \/ Tick

\* Every external call returns, so an enabled step is eventually taken.
FairSpecSingle == InitSingle /\ [][NextSingle]_vars /\ WF_vars(SingleStep)

-----------------------------------------------------------------------------
(* KMHDAPIClient.FetchPlaylist *)

MaxRetries == 3

StatusOK == 200
StatusBadGateway == 502
StatusGatewayTimeout == 504

\* What one httpClient.Do may give: a network error (err != nil, no response)
\* or a response with a status code.
NetworkError == [err |-> TRUE, StatusCode |-> 0]
Response(code) == [err |-> FALSE, StatusCode |-> code]
Answers == { NetworkError } \cup { Response(c) : c \in { 200, 204, 404, 500, 502, 504 } }

\* What the decoder may find in a 200 response.
Bodies == { "json_array", "malformed" }

Breaks_Also500(r) == ~r.err /\ r.StatusCode \notin { StatusBadGateway, StatusGatewayTimeout, 500 }

\* if err == nil && resp.StatusCode != 502 && resp.StatusCode != 504 { break }
Breaks(r) == ~r.err /\ r.StatusCode # StatusBadGateway /\ r.StatusCode # StatusGatewayTimeout

WaitTime_Fixed(n) == 2

\* waitTime := time.Duration(attempt) * 2 * time.Second
WaitTime(n) == n * 2

WaitsBeforeRetry_Always(n) == TRUE

\* if attempt < maxRetries { ... time.Sleep(waitTime) }
WaitsBeforeRetry(n) == n < MaxRetries

\* for attempt := 1; attempt <= maxRetries; attempt++
LoopContinues(n) == n <= MaxRetries

Returned(err, value) == [err |-> err, value |-> value]

\* The code after the retry loop: the error and status checks.
AfterLoop(r) ==
    IF r.err THEN Returned("request_failed", "nil")
    ELSE IF r.StatusCode # StatusOK THEN Returned("bad_status", "nil")
    ELSE Returned("", "pending")

\* One pass of the retry loop's body: the request, then break, wait or fall
\* out of the loop.
Request ==
    /\ fpc = "request"
    /\ \E r \in Answers :
          /\ responses' = Append(responses, r)
          /\ resp' = r
          /\ IF Breaks(r)
             THEN /\ fpc' = "after_loop"
                  /\ UNCHANGED <<attempt, waits>>
             ELSE /\ waits' = IF WaitsBeforeRetry(attempt)
                             THEN Append(waits, WaitTime(attempt)) ELSE waits
                  /\ attempt' = attempt + 1
                  /\ fpc' = IF LoopContinues(attempt + 1) THEN "request" ELSE "after_loop"
    /\ UNCHANGED <<body, fetchReturn>>
    /\ UNCHANGED <<schedVars, unitVars>>

\* From the end of the loop to the return: status check, decoding, parsing.
Finish ==
    /\ fpc = "after_loop"
    /\ \E b \in Bodies :
          LET checked == AfterLoop(resp)
          IN  IF checked.err # ""
              THEN fetchReturn' = checked /\ body' = "none"
              ELSE /\ body' = b
                   /\ fetchReturn' = IF b = "malformed"
                                     THEN Returned("decode_failed", "nil")
                                     ELSE Returned("", "collection")
    /\ fpc' = "returned"
    /\ UNCHANGED <<attempt, responses, waits, resp>>
    /\ UNCHANGED <<schedVars, unitVars>>

\* The scheduler is not running while the feed client is examined.
SchedulerParked ==
    /\ pc = "done" /\ continuous = FALSE /\ prefix = ""
    /\ now = [year |-> 2025, month |-> 12] /\ ticks = 0
    /\ userPlaylists = <<>> /\ targetPlaylist = NoPlaylist /\ createCalls = 0
    /\ globalSeenSongs = {} /\ seenSongs = {}
    /\ lastFeed = [fetched |-> FALSE, songs |-> <<>>] /\ fetchResult = "none"
    /\ newSongs = <<>> /\ i = 0 /\ songMatch = NoMatch /\ existing = NoCheck
    /\ syncedCount = 0 /\ skippedCount = 0 /\ outcomes = <<>> /\ callLog = <<>>
    /\ timesNew = [k \in Keys |-> 0] /\ nextSyncDuration = 0

\* FetchPlaylist has built its request and enters the loop with attempt := 1.
InitFetch ==
    /\ SchedulerParked
    /\ UnitsIdle
    /\ fpc = "request"
    /\ attempt = 1
    /\ responses = <<>>
    /\ waits = <<>>
    /\ resp = NetworkError
    /\ body = "none"
    /\ fetchReturn = Returned("", "pending")

NextFetch == Request \/ Finish

SpecFetch == InitFetch /\ [][NextFetch]_vars

-----------------------------------------------------------------------------
(* getOrCreateMonthlyPlaylist, called repeatedly while the months pass *)

\* The playlist lists the account may start with: those of the scheduler, a
\* list with two playlists of the month's name, and one where next month's
\* playlist exists already.
ResolverPlaylists ==
    InitialPlaylists \cup
    { << Playlist("pl1", "KMHD-2025-12", {}), Playlist("pl2", "KMHD-2025-12", {"t1"}) >>,
      << Playlist("pl1", "KMHD-2026-01", {}) >> }

\* One call of getOrCreateMonthlyPlaylist against the account as it is now.
Resolve ==
    /\ pc = "resolver"
    /\ resolveCalls < MaxResolveCalls
    /\ \E listOK \in BOOLEAN, createOK \in BOOLEAN :
          LET r == getOrCreateMonthlyPlaylist(prefix, now, userPlaylists, listOK, createOK)
          IN  /\ userPlaylists' = r.playlists
              /\ targetPlaylist' = r.playlist
              /\ createCalls' = createCalls + r.created
              /\ createLog' = IF r.created = 1 THEN Append(createLog, r.createName)
                              ELSE createLog
              /\ resolved' = [listOK |-> listOK, err |-> r.err, reason |-> r.reason]
    /\ resolveCalls' = resolveCalls + 1
    /\ UNCHANGED <<pc, continuous, prefix, now, ticks, globalSeenSongs, seenSongs, lastFeed,
                   fetchResult, newSongs, i, songMatch, existing, syncedCount,
                   skippedCount, outcomes, callLog, timesNew, nextSyncDuration>>
    /\ UNCHANGED restOfResolve

InitResolve ==
    /\ pc = "resolver" /\ continuous = FALSE
    /\ prefix \in { "", "KMHD" }
    /\ now \in StartMonths /\ ticks = 0
    /\ userPlaylists \in ResolverPlaylists
    /\ targetPlaylist = NoPlaylist /\ createCalls = 0
    /\ globalSeenSongs = {} /\ seenSongs = {}
    /\ lastFeed = [fetched |-> FALSE, songs |-> <<>>] /\ fetchResult = "none"
    /\ newSongs = <<>> /\ i = 0 /\ songMatch = NoMatch /\ existing = NoCheck
    /\ syncedCount = 0 /\ skippedCount = 0 /\ outcomes = <<>> /\ callLog = <<>>
    /\ timesNew = [k \in Keys |-> 0] /\ nextSyncDuration = 0
    /\ FetchIdle
    /\ UnitsIdle

NextResolve == Resolve \/ Tick

SpecResolve == InitResolve /\ [][NextResolve]_vars

-----------------------------------------------------------------------------
(* Strings: the operations of package strings that the program uses *)

CharAt(s, k) == SubSeq(s, k, k)

\* strings.TrimSpace, with the space as the white space of the model.
RECURSIVE TrimSpace(_)
TrimSpace(s) ==
    IF Len(s) = 0 THEN s
    ELSE IF CharAt(s, 1) = " " THEN TrimSpace(SubSeq(s, 2, Len(s)))
    ELSE IF CharAt(s, Len(s)) = " " THEN TrimSpace(SubSeq(s, 1, Len(s) - 1))
    ELSE s

ToLowerChar(c) ==
    CASE c = "A" -> "a" [] c = "B" -> "b" [] c = "C" -> "c" [] c = "D" -> "d"
      [] c = "E" -> "e" [] c = "F" -> "f" [] c = "G" -> "g" [] c = "H" -> "h"
      [] c = "I" -> "i" [] c = "J" -> "j" [] c = "K" -> "k" [] c = "L" -> "l"
      [] c = "M" -> "m" [] c = "N" -> "n" [] c = "O" -> "o" [] c = "P" -> "p"
      [] c = "Q" -> "q" [] c = "R" -> "r" [] c = "S" -> "s" [] c = "T" -> "t"
      [] c = "U" -> "u" [] c = "V" -> "v" [] c = "W" -> "w" [] c = "X" -> "x"
      [] c = "Y" -> "y" [] c = "Z" -> "z"
      [] OTHER -> c

\* strings.ToLower, over the letters of the model.
RECURSIVE ToLower(_)
ToLower(s) ==
    IF Len(s) = 0 THEN s
    ELSE ToLowerChar(CharAt(s, 1)) \o ToLower(SubSeq(s, 2, Len(s)))

\* strings.Contains(s, substr)
Contains(s, substr) ==
    \E k \in 1..(Len(s) - Len(substr) + 1) : SubSeq(s, k, k + Len(substr) - 1) = substr

\* Whether the characters of pattern occur in s in the same order, which is
\* when fuzzy.Find reports a match.
RECURSIVE IsSubsequence(_, _)
IsSubsequence(pattern, s) ==
    IF Len(pattern) = 0 THEN TRUE
    ELSE IF Len(s) = 0 THEN FALSE
    ELSE IF CharAt(pattern, 1) = CharAt(s, 1)
         THEN IsSubsequence(SubSeq(pattern, 2, Len(pattern)), SubSeq(s, 2, Len(s)))
    ELSE IsSubsequence(pattern, SubSeq(s, 2, Len(s)))

-----------------------------------------------------------------------------
(* KMHDAPIClient.parseResponse *)

\* A JSON value found under a key of a raw entry: missing, of another type
\* than string, or a string.
Missing == [kind |-> "missing", value |-> ""]
NotAString == [kind |-> "number", value |-> ""]
Str(v) == [kind |-> "string", value |-> v]

\* A raw entry: whether its bytes are a JSON object, a JSON value of another
\* form, or no JSON at all; whether _duration and artistId hold numbers, as
\* the track structs expect; and the three fields the song is taken from.
RawEntry(json, durationOK, artistIdOK, artistName, trackName, collectionName) ==
    [json |-> json, durationOK |-> durationOK, artistIdOK |-> artistIdOK,
     artistName |-> artistName, trackName |-> trackName,
     collectionName |-> collectionName]

RawEntries ==
    { RawEntry("object", TRUE, TRUE, Str("A"), Str("T"), Str(" X ")),
      RawEntry("object", TRUE, TRUE, Str(" B "), Str("T "), Missing),
      RawEntry("object", FALSE, TRUE, Str("A"), Str("T"), NotAString),
      RawEntry("object", TRUE, FALSE, Str("B"), Str("T"), Str("")),
      RawEntry("object", TRUE, TRUE, Str(""), Str("T"), Str("X")),
      RawEntry("object", TRUE, TRUE, Str("A"), Missing, Missing),
      RawEntry("object", TRUE, TRUE, NotAString, Str("T"), Missing),
      RawEntry("object", TRUE, TRUE, Str(" "), Str("T"), Str("X")),
      RawEntry("object", TRUE, TRUE, Str("A"), Str("  "), Missing),
      RawEntry("array", TRUE, TRUE, Missing, Missing, Missing),
      RawEntry("malformed", TRUE, TRUE, Missing, Missing, Missing) }

APIResponses == SeqsUpTo(RawEntries, MaxEntries)

\* json.Unmarshal into a struct: fails on bytes that are not a JSON object
\* and on a field whose value has another type than the struct's.
UnmarshalsInto(raw, fieldsOK) ==
    /\ raw.json = "object"
    /\ fieldsOK
    /\ \A f \in { raw.artistName, raw.trackName, raw.collectionName } : f.kind # "number"

\* rawMap[key].(string): the string, or "" when the key is missing or holds
\* another type.
AsString(f) == IF f.kind = "string" THEN f.value ELSE ""

mapTrackToSong_NoTrim(artistName, trackName, collectionName) ==
    [err |-> FALSE, song |-> Song(artistName, trackName, collectionName)]

mapTrackToSong(artistName, trackName, collectionName) ==
    [err |-> FALSE,
     song |-> Song(TrimSpace(artistName), TrimSpace(trackName), TrimSpace(collectionName))]

parseFailed == [err |-> TRUE, song |-> Song("", "", "")]

\* The cascade: the complete struct, the minimal struct, then the generic map.
parseTrackObject(rawTrack) ==
    LET artistName == AsString(rawTrack.artistName)
        trackName == AsString(rawTrack.trackName)
        collectionName == AsString(rawTrack.collectionName)
        complete == UnmarshalsInto(rawTrack, rawTrack.durationOK /\ rawTrack.artistIdOK)
        minimal == UnmarshalsInto(rawTrack, rawTrack.durationOK)
    IN  IF complete /\ artistName # "" /\ trackName # ""
        THEN mapTrackToSong(artistName, trackName, collectionName)
        ELSE IF minimal /\ artistName # "" /\ trackName # ""
        THEN mapTrackToSong(artistName, trackName, collectionName)
        ELSE IF rawTrack.json # "object" THEN parseFailed
        ELSE IF artistName = "" \/ trackName = "" THEN parseFailed
        ELSE mapTrackToSong(artistName, trackName, collectionName)

\* One iteration of the range loop over apiResponse.
ParseEntry ==
    /\ ppc = "loop"
    /\ rawIndex <= Len(apiResponse)
    /\ LET r == parseTrackObject(apiResponse[rawIndex])
       IN  collection' = IF ~r.err /\ IsValid(r.song) THEN Append(collection, r.song)
                         ELSE collection
    /\ rawIndex' = rawIndex + 1
    /\ UNCHANGED <<ppc, apiResponse, parseReturn>>
    /\ UNCHANGED restOfParse

\* return collection, nil
ParseReturn ==
    /\ ppc = "loop"
    /\ rawIndex > Len(apiResponse)
    /\ parseReturn' = [err |-> FALSE, value |-> collection]
    /\ ppc' = "returned"
    /\ UNCHANGED <<apiResponse, rawIndex, collection>>
    /\ UNCHANGED restOfParse

InitParse ==
    /\ SchedulerParked
    /\ FetchIdle
    /\ OthersIdle("parse")
    /\ ppc = "loop"
    /\ apiResponse \in APIResponses
    /\ rawIndex = 1
    /\ collection = <<>>
    /\ parseReturn = [err |-> FALSE, value |-> "pending"]

NextParse == ParseEntry \/ ParseReturn

SpecParse == InitParse /\ [][NextParse]_vars

-----------------------------------------------------------------------------
(* calculateMatchConfidence and calculateAlbumConfidence.  Confidences are
   counted in thousandths, rounded down. *)

Normalize_CaseSensitive(s) == TrimSpace(s)

\* strings.ToLower(strings.TrimSpace(s))
Normalize(s) == ToLower(TrimSpace(s))

ExactConfidence == 1000
NeutralAlbumConfidence == 500
MinFuzzyConfidence == 100
MaxFuzzyConfidence == 700

ContainedScore_Flat(queryLen, itemLen) == 800

\* 0.8 + (ratio * 0.2), ratio := len(normalizedQuery) / len(normalizedItem)
ContainedScore(queryLen, itemLen) == 800 + (200 * queryLen) \div itemLen

\* 0.7 + (ratio * 0.2), ratio := len(normalizedItem) / len(normalizedQuery)
ContainingScore(itemLen, queryLen) == 700 + (200 * itemLen) \div queryLen

Clamp_None(confidence) == confidence

\* Cap at 0.7 and ensure minimum of 0.1.
Clamp(confidence) ==
    IF confidence > MaxFuzzyConfidence THEN MaxFuzzyConfidence
    ELSE IF confidence < MinFuzzyConfidence THEN MinFuzzyConfidence
    ELSE confidence

\* (fuzzyScore / maxExpectedScore) * 0.7, maxExpectedScore := len(query) * 2
FuzzyConfidence(score, queryLen) == Clamp((score * 700) \div (queryLen * 2))

\* The scores the library may give a matching pair; they can be negative and
\* can exceed twice the length of the pattern.
FuzzyScores == { -4, 0, 1, 3, 40 }

\* fuzzy.Find(pattern, []string{item}): one match with the library's score
\* when the pattern's characters occur in the item in order, none otherwise.
FuzzyFind(pattern, item, score) ==
    IF IsSubsequence(pattern, item) THEN << [Score |-> score] >> ELSE <<>>

calculateMatchConfidence(q, itemName, score) ==
    LET normalizedQuery == Normalize(q)
        normalizedItem == Normalize(itemName)
    IN  IF normalizedQuery = normalizedItem THEN ExactConfidence
        ELSE IF Contains(normalizedItem, normalizedQuery)
             THEN ContainedScore(Len(normalizedQuery), Len(normalizedItem))
        ELSE IF Contains(normalizedQuery, normalizedItem)
             THEN ContainingScore(Len(normalizedItem), Len(normalizedQuery))
        ELSE LET matches == FuzzyFind(normalizedQuery, normalizedItem, score)
             IN  IF Len(matches) > 0
                 THEN FuzzyConfidence(matches[1].Score, Len(normalizedQuery))
                 ELSE MinFuzzyConfidence

\* A track of the catalog, as far as the matcher reads it.
Track(name, album) == [nil |-> FALSE, Name |-> name, Album |-> album]

\* A nil *types.Track.
NilTrack == [nil |-> TRUE, Name |-> "", Album |-> ""]

NoAlbumData_OnlyNil(t) == t.nil

\* track == nil || strings.TrimSpace(track.Album.Name) == ""
NoAlbumData(t) == t.nil \/ TrimSpace(t.Album) = ""

calculateAlbumConfidence(q, t, score) ==
    IF TrimSpace(q) = "" THEN NeutralAlbumConfidence
    ELSE IF NoAlbumData(t) THEN NeutralAlbumConfidence
    ELSE calculateMatchConfidence(q, t.Album, score)

\* The strings the two functions are applied to.
QueryStrings == { "", " ", "a", "A ", "ab", "b", "aab" }
ItemStrings == { "", " ", "a", "ab", "a b", "B", " aB" }

ConfidenceTracks ==
    { NilTrack } \cup { Track(n, al) : n \in ItemStrings, al \in ItemStrings }

\* calculateMatchConfidence(query, track.Name)
CalcMatch ==
    /\ "match" \notin cpc
    /\ cpc # {"idle"}
    /\ ~track.nil
    /\ matchResult' = calculateMatchConfidence(query, track.Name, fuzzyScore)
    /\ cpc' = cpc \cup {"match"}
    /\ UNCHANGED <<query, track, fuzzyScore, albumResult>>
    /\ UNCHANGED restOfConf

\* calculateAlbumConfidence(query, track)
CalcAlbum ==
    /\ "album" \notin cpc
    /\ cpc # {"idle"}
    /\ albumResult' = calculateAlbumConfidence(query, track, fuzzyScore)
    /\ cpc' = cpc \cup {"album"}
    /\ UNCHANGED <<query, track, fuzzyScore, matchResult>>
    /\ UNCHANGED restOfConf

InitConfidence ==
    /\ SchedulerParked
    /\ FetchIdle
    /\ OthersIdle("confidence")
    /\ cpc = {}
    /\ query \in QueryStrings
    /\ track \in ConfidenceTracks
    /\ fuzzyScore \in FuzzyScores
    /\ matchResult = 0
    /\ albumResult = 0

NextConfidence == CalcMatch \/ CalcAlbum

SpecConfidence == InitConfidence /\ [][NextConfidence]_vars

-----------------------------------------------------------------------------
(* FuzzySongSearcher.FindBestSongMatch and FindBestSongMatchWithAlbum *)

\* The arguments and the catalog's answers the matcher is examined with.
ArtistQueries == { " ", "A ", "b" }
SongQueries == { "", " ", "a", "ab" }
AlbumQueries == { "", " ", "b", "A" }
ArtistNames == { "a", "ab" }
CatalogTracks ==
    { Track("a", "b"), Track("A ", "a"), Track("", "a"),
      Track("ab", ""), Track("a b", " "), Track("b", "B") }
TrackLists == SeqsUpTo(CatalogTracks, MaxTracks)

\* The album query FindBestSongMatch passes on.
WrapperAlbumQuery_Same == "b"

WrapperAlbumQuery == ""

NoSongQuery_OnlyEmpty(q) == q = ""

\* strings.TrimSpace(songQuery) == ""
NoSongQuery(q) == TrimSpace(q) = ""

Better_OrEqual(trackOverall, bestOverall) == trackOverall >= bestOverall

\* trackOverallConfidence > bestOverallConfidence
Better(trackOverall, bestOverall) == trackOverall > bestOverall

\* The scores the library can give the pair: one of FuzzyScores when the
\* fuzzy branch of calculateMatchConfidence is reached, and no choice to
\* make otherwise.
ScoresFor(q, itemName) ==
    LET nq == Normalize(q)
        ni == Normalize(itemName)
    IN  IF nq # ni /\ ~Contains(ni, nq) /\ ~Contains(nq, ni) /\ IsSubsequence(nq, ni)
        THEN FuzzyScores ELSE { 0 }

MatchError(reason) == [err |-> reason]

EmptyArtistQuery_NoTrim(q) == q = ""

\* strings.TrimSpace(artistQuery) == ""
EmptyArtistQuery(q) == TrimSpace(q) = ""

Scored(index, songConfidence, albumConfidence) ==
    [index |-> index, song |-> songConfidence, album |-> albumConfidence,
     overall |-> OverallConfidence(artistConf, songConfidence, albumConfidence)]

\* &SongMatch{...}
MatchOf(b, sq) ==
    [err |-> "", Track |-> b.index, SongQuery |-> sq, AlbumQuery |-> albumQuery,
     ArtistConfidence |-> artistConf, SongConfidence |-> b.song,
     AlbumConfidence |-> b.album, OverallConfidence |-> b.overall]

\* FindBestSongMatch(artistQuery, songQuery)
FindBestSongMatch ==
    /\ mpc = "wrapper"
    /\ albumQuery' = WrapperAlbumQuery
    /\ mpc' = "entry"
    /\ UNCHANGED <<wrapped, artistQuery, songQuery, foundArtist, topTracks, artistConf, ti,
                   best, matchLog, matchReturn>>
    /\ UNCHANGED catalogCalls
    /\ UNCHANGED restOfMatch

\* The check of the artist query, SearchArtist and the artist's confidence.
SearchArtist ==
    /\ mpc = "entry"
    /\ \/ /\ EmptyArtistQuery(artistQuery)
          /\ matchReturn' = MatchError("artist query cannot be empty")
          /\ mpc' = "returned"
          /\ UNCHANGED <<artistConf, catalogCalls>>
       \/ /\ ~EmptyArtistQuery(artistQuery)
          /\ catalogCalls' = Append(catalogCalls, "SearchArtist")
          /\ matchReturn' = MatchError("failed to search for artist")
          /\ mpc' = "returned"
          /\ UNCHANGED artistConf
       \/ /\ ~EmptyArtistQuery(artistQuery)
          /\ catalogCalls' = Append(catalogCalls, "SearchArtist")
          /\ \E score \in ScoresFor(artistQuery, foundArtist) :
                artistConf' = calculateMatchConfidence(artistQuery, foundArtist, score)
          /\ mpc' = "tracks"
          /\ UNCHANGED matchReturn
    /\ UNCHANGED <<wrapped, artistQuery, songQuery, albumQuery, foundArtist, topTracks, ti,
                   best, matchLog>>
    /\ UNCHANGED restOfMatch

\* GetArtistTopTracks and the check for an empty list.
GetArtistTopTracks ==
    /\ mpc = "tracks"
    /\ catalogCalls' = Append(catalogCalls, "GetArtistTopTracks")
    /\ \/ /\ matchReturn' = MatchError("failed to get artist tracks")
          /\ mpc' = "returned"
       \/ /\ Len(topTracks) = 0
          /\ matchReturn' = MatchError("no tracks found for artist")
          /\ mpc' = "returned"
       \/ /\ Len(topTracks) > 0
          /\ mpc' = "select"
          /\ UNCHANGED matchReturn
    /\ UNCHANGED <<wrapped, artistQuery, songQuery, albumQuery, foundArtist, topTracks,
                   artistConf, ti, best, matchLog>>
    /\ UNCHANGED restOfMatch

\* No song query: the first track is returned with song confidence 1.0.
ReturnFirstTrack ==
    /\ mpc = "select"
    /\ NoSongQuery(songQuery)
    /\ \E albumScore \in ScoresFor(albumQuery, topTracks[1].Album) :
          LET first == Scored(1, ExactConfidence,
                              calculateAlbumConfidence(albumQuery, topTracks[1], albumScore))
          IN  /\ matchLog' = Append(matchLog, first)
              /\ matchReturn' = MatchOf(first, "")
    /\ mpc' = "returned"
    /\ UNCHANGED <<wrapped, artistQuery, songQuery, albumQuery, foundArtist, topTracks,
                   artistConf, ti, best>>
    /\ UNCHANGED catalogCalls
    /\ UNCHANGED restOfMatch

\* bestTrack := &tracks[0] and its confidences.
ScoreFirstTrack ==
    /\ mpc = "select"
    /\ ~NoSongQuery(songQuery)
    /\ \E songScore \in ScoresFor(songQuery, topTracks[1].Name),
          albumScore \in ScoresFor(albumQuery, topTracks[1].Album) :
          LET first == Scored(1, calculateMatchConfidence(songQuery, topTracks[1].Name, songScore),
                              calculateAlbumConfidence(albumQuery, topTracks[1], albumScore))
          IN  /\ matchLog' = Append(matchLog, first)
              /\ best' = first
    /\ ti' = 2
    /\ mpc' = "loop"
    /\ UNCHANGED <<wrapped, artistQuery, songQuery, albumQuery, foundArtist, topTracks,
                   artistConf, matchReturn>>
    /\ UNCHANGED catalogCalls
    /\ UNCHANGED restOfMatch

\* One iteration of the loop over tracks[1:].
ScoreTrack ==
    /\ mpc = "loop"
    /\ ti <= Len(topTracks)
    /\ \E songScore \in ScoresFor(songQuery, topTracks[ti].Name),
          albumScore \in ScoresFor(albumQuery, topTracks[ti].Album) :
          LET this == Scored(ti, calculateMatchConfidence(songQuery, topTracks[ti].Name, songScore),
                             calculateAlbumConfidence(albumQuery, topTracks[ti], albumScore))
          IN  /\ matchLog' = Append(matchLog, this)
              /\ best' = IF Better(this.overall, best.overall) THEN this ELSE best
    /\ ti' = ti + 1
    /\ UNCHANGED <<mpc, wrapped, artistQuery, songQuery, albumQuery, foundArtist, topTracks,
                   artistConf, matchReturn>>
    /\ UNCHANGED catalogCalls
    /\ UNCHANGED restOfMatch

\* return result, nil
ReturnBest ==
    /\ mpc = "loop"
    /\ ti > Len(topTracks)
    /\ matchReturn' = MatchOf(best, songQuery)
    /\ mpc' = "returned"
    /\ UNCHANGED <<wrapped, artistQuery, songQuery, albumQuery, foundArtist, topTracks,
                   artistConf, ti, best, matchLog>>
    /\ UNCHANGED catalogCalls
    /\ UNCHANGED restOfMatch

\* A call of FindBestSongMatch(a, s) or of FindBestSongMatchWithAlbum(a, s, al).
InitMatch ==
    /\ SchedulerParked
    /\ FetchIdle
    /\ OthersIdle("matcher")
    /\ wrapped \in BOOLEAN
    /\ mpc = IF wrapped THEN "wrapper" ELSE "entry"
    /\ artistQuery \in ArtistQueries
    /\ songQuery \in SongQueries
    /\ albumQuery \in IF wrapped THEN { "unset" } ELSE AlbumQueries
    /\ foundArtist \in ArtistNames
    /\ topTracks \in TrackLists
    /\ artistConf = 0
    /\ ti = 0
    /\ best = [index |-> 0, song |-> 0, album |-> 0, overall |-> 0]
    /\ matchLog = <<>>
    /\ matchReturn = [err |-> "pending"]
    /\ catalogCalls = <<>>

NextMatch ==
    FindBestSongMatch \/ SearchArtist \/ GetArtistTopTracks \/ ReturnFirstTrack
    \/ ScoreFirstTrack \/ ScoreTrack \/ ReturnBest

SpecMatch == InitMatch /\ [][NextMatch]_vars

-----------------------------------------------------------------------------
(* DuplicateService.CheckDuplicates *)

\* types.Track, as far as the duplicate check reads it.
DupTrack(id, name) == [ID |-> id, Name |-> name]

DupTrackSet ==
    { DupTrack("t1", "So What"), DupTrack("t2", "Naima"), DupTrack("t3", "Footprints") }

DupTrackLists == SeqsUpTo(DupTrackSet, MaxDupTracks)

DupPlaylistID == "playlist123"

\* CheckTracksInPlaylist answers with an error or with one flag per id; the
\* interface does not fix the length of the answer.
BoolSeqs(n) == UNION { [1..k -> BOOLEAN] : k \in 0..n }

RemoteAnswers(n) ==
    { [err |-> TRUE, flags |-> <<>>] }
    \cup { [err |-> FALSE, flags |-> f] : f \in BoolSeqs(n + 1) }

NoTracks_Never(tracks) == FALSE

NoTracks(tracks) == Len(tracks) = 0

IsDuplicate_Negated(flags, k, tracks) == ~flags[k] /\ k <= Len(tracks)

\* exists && i < len(tracks), with i counted from one.
IsDuplicate(flags, k, tracks) == flags[k] /\ k <= Len(tracks)

RECURSIVE collectFrom(_, _, _)
collectFrom(flags, k, tracks) ==
    IF k > Len(flags) THEN <<>>
    ELSE (IF IsDuplicate(flags, k, tracks) THEN <<tracks[k]>> ELSE <<>>)
         \o collectFrom(flags, k + 1, tracks)

collectDuplicates(flags, tracks) == collectFrom(flags, 1, tracks)

\* strings.Join
RECURSIVE Join(_, _)
Join(elems, sep) ==
    IF Len(elems) = 0 THEN ""
    ELSE IF Len(elems) = 1 THEN elems[1]
    ELSE elems[1] \o sep \o Join(Tail(elems), sep)

NamesOf(tracks) == [k \in 1..Len(tracks) |-> tracks[k].Name]

DuplicateMessage(duplicateTracks) ==
    IF Len(duplicateTracks) > 0
    THEN "Found " \o ToString(Len(duplicateTracks)) \o " duplicate track(s): "
         \o Join(NamesOf(duplicateTracks), ", ")
    ELSE "No duplicate tracks found"

\* *types.DuplicateResult; LastAdded is "zero" (the zero time) or "now".
DuplicateResult(hasDuplicates, duplicateTracks, lastAdded, message) ==
    [HasDuplicates |-> hasDuplicates, DuplicateTracks |-> duplicateTracks,
     LastAdded |-> lastAdded, Message |-> message]

NoTracksResult == DuplicateResult(FALSE, <<>>, "zero", "No tracks to check")

\* len(tracks) == 0: the result is built without asking the remote side.
DupEntry ==
    /\ dpc = "entry"
    /\ IF NoTracks(dupTracks)
       THEN /\ dupReturn' = [err |-> FALSE, result |-> NoTracksResult]
            /\ dpc' = "returned"
       ELSE /\ dpc' = "remote"
            /\ UNCHANGED dupReturn
    /\ UNCHANGED <<dupTracks, existsResults, remoteChecks>>
    /\ UNCHANGED <<acpc, topTracksAnswer, artistReturn>>
    /\ UNCHANGED restOfDup

\* d.spotify.CheckTracksInPlaylist(playlistID, trackIDs) and its error return.
DupRemoteCheck ==
    /\ dpc = "remote"
    /\ remoteChecks' = Append(remoteChecks,
           [playlistID |-> DupPlaylistID,
            trackIDs |-> [k \in 1..Len(dupTracks) |-> dupTracks[k].ID]])
    /\ \E answer \in RemoteAnswers(Len(dupTracks)) :
          /\ existsResults' = answer
          /\ IF answer.err
             THEN /\ dupReturn' = [err |-> TRUE, result |-> "nil"]
                  /\ dpc' = "returned"
             ELSE /\ dpc' = "collect"
                  /\ UNCHANGED dupReturn
    /\ UNCHANGED dupTracks
    /\ UNCHANGED <<acpc, topTracksAnswer, artistReturn>>
    /\ UNCHANGED restOfDup

\* The collection loop and the construction of the result.
DupCollect ==
    /\ dpc = "collect"
    /\ LET duplicateTracks == collectDuplicates(existsResults.flags, dupTracks)
       IN dupReturn' =
              [err |-> FALSE,
               result |-> DuplicateResult(Len(duplicateTracks) > 0, duplicateTracks,
                                          "now", DuplicateMessage(duplicateTracks))]
    /\ dpc' = "returned"
    /\ UNCHANGED <<dupTracks, existsResults, remoteChecks>>
    /\ UNCHANGED <<acpc, topTracksAnswer, artistReturn>>
    /\ UNCHANGED restOfDup

\* The artists of the first top track.
FirstTrackArtists == { <<>>, <<"Test Artist">>, <<"Test Artist", "Guest">> }

\* GetArtistTopTracks(artistID): an error, or the tracks.
TopTracksAnswers ==
    { [err |-> TRUE, tracks |-> <<>>, artists |-> <<>>] }
    \cup { [err |-> FALSE, tracks |-> t, artists |-> IF t = <<>> THEN <<>> ELSE a] :
               t \in DupTrackLists, a \in FirstTrackArtists }

\* if len(tracks) > 0 && len(tracks[0].Artists) > 0 { artistName = ... }
ArtistNameOf(artists) == IF Len(artists) > 0 THEN artists[1] ELSE ""

ArtistMessage_AlwaysHint(hasDuplicates, artistName, count) ==
    "Artist '" \o artistName \o "' already has " \o ToString(count)
    \o " track(s) in this playlist (last added: now). Use 'Add Anyway' to override."

\* The message of the enhanced result; the time of LastAdded is "now".
ArtistMessage(hasDuplicates, artistName, count) ==
    IF hasDuplicates
    THEN "Artist '" \o artistName \o "' already has " \o ToString(count)
         \o " track(s) in this playlist (last added: now). Use 'Add Anyway' to override."
    ELSE "Artist '" \o artistName \o "' tracks not found in playlist, safe to add"

\* *types.DuplicateResult with the artist's name.
ArtistResult(hasDuplicates, duplicateTracks, lastAdded, artistName, message) ==
    [HasDuplicates |-> hasDuplicates, DuplicateTracks |-> duplicateTracks,
     LastAdded |-> lastAdded, ArtistName |-> artistName, Message |-> message]

\* CheckArtistInPlaylist up to its call of CheckDuplicates.
ArtistGetTopTracks ==
    /\ acpc = "entry"
    /\ \E answer \in TopTracksAnswers :
          /\ topTracksAnswer' = answer
          /\ IF answer.err
             THEN /\ artistReturn' = [err |-> TRUE, result |-> "nil"]
                  /\ acpc' = "returned"
                  /\ UNCHANGED <<dpc, dupTracks>>
             ELSE IF Len(answer.tracks) = 0
             THEN /\ artistReturn' =
                         [err |-> FALSE,
                          result |-> ArtistResult(FALSE, <<>>, "zero", "",
                                                  "Artist has no tracks")]
                  /\ acpc' = "returned"
                  /\ UNCHANGED <<dpc, dupTracks>>
             ELSE /\ dupTracks' = answer.tracks
                  /\ dpc' = "entry"
                  /\ acpc' = "delegated"
                  /\ UNCHANGED artistReturn
    /\ UNCHANGED <<existsResults, remoteChecks, dupReturn>>
    /\ UNCHANGED restOfDup

\* CheckDuplicates has returned: pass its error on, or enhance its result.
ArtistEnhance ==
    /\ acpc = "delegated"
    /\ dpc = "returned"
    /\ artistReturn' =
           IF dupReturn.err THEN [err |-> TRUE, result |-> "nil"]
           ELSE LET r == dupReturn.result
                    artistName == ArtistNameOf(topTracksAnswer.artists)
                IN  [err |-> FALSE,
                     result |-> ArtistResult(r.HasDuplicates, r.DuplicateTracks,
                                    r.LastAdded, artistName,
                                    ArtistMessage(r.HasDuplicates, artistName,
                                                  Len(r.DuplicateTracks)))]
    /\ acpc' = "returned"
    /\ UNCHANGED <<dpc, dupTracks, existsResults, remoteChecks, dupReturn, topTracksAnswer>>
    /\ UNCHANGED restOfDup

\* A call of CheckDuplicates(playlistID, tracks), or of
\* CheckArtistInPlaylist(playlistID, artistID).
InitDuplicates ==
    /\ SchedulerParked
    /\ FetchIdle
    /\ OthersIdle("duplicates")
    /\ acpc \in { "off", "entry" }
    /\ dpc = IF acpc = "off" THEN "entry" ELSE "idle"
    /\ dupTracks \in IF acpc = "off" THEN DupTrackLists ELSE { <<>> }
    /\ existsResults = [err |-> FALSE, flags |-> <<>>]
    /\ remoteChecks = <<>>
    /\ dupReturn = [err |-> FALSE, result |-> "pending"]
    /\ topTracksAnswer = [err |-> FALSE, tracks |-> <<>>, artists |-> <<>>]
    /\ artistReturn = [err |-> FALSE, result |-> "pending"]

NextDuplicates ==
    DupEntry \/ DupRemoteCheck \/ DupCollect \/ ArtistGetTopTracks \/ ArtistEnhance

SpecDuplicates == InitDuplicates /\ [][NextDuplicates]_vars

-----------------------------------------------------------------------------
(* PlaylistService.AddArtistToPlaylist *)

AddArtistName == "Miles Davis"

\* *types.DuplicateResult as AddArtistToPlaylist reads it, with the error.
DetectorAnswer(err, isNil, hasDuplicates, message) ==
    [err |-> err, nil |-> isNil, HasDuplicates |-> hasDuplicates, Message |-> message]

DetectorAnswers ==
    { DetectorAnswer(TRUE, TRUE, FALSE, ""),
      DetectorAnswer(FALSE, TRUE, FALSE, ""),
      DetectorAnswer(FALSE, FALSE, FALSE, "Artist not found in playlist"),
      DetectorAnswer(FALSE, FALSE, TRUE, "Artist already in playlist") }

\* The texts of the errors AddTracksToPlaylist fails with; "" is success.
AddErrors ==
    { "", "HTTP 429: Rate limit exceeded", "Rate limit exceeded, please try again",
      "RATE LIMIT", "status 429", "rate-limit reached", "playlist not found" }

ConsultsDetector_IgnoresForce(forced, detector) == detector

\* !force && p.duplicate != nil
ConsultsDetector(forced, detector) == ~forced /\ detector

ReportsDuplicate_Never(answer) == FALSE

\* err == nil && duplicateResult != nil && duplicateResult.HasDuplicates
ReportsDuplicate(answer) == ~answer.err /\ ~answer.nil /\ answer.HasDuplicates

IsRateLimit_CaseSensitive(errText) ==
    Contains(errText, "rate limit") \/ Contains(errText, "429")

IsRateLimit_Never(errText) == FALSE

IsRateLimit(errText) ==
    Contains(ToLower(errText), "rate limit") \/ Contains(ToLower(errText), "429")

RateLimitMessage == "Rate limited by Spotify API. Please try again later."

AddErrorMessage(errText) ==
    IF IsRateLimit(errText) THEN RateLimitMessage
    ELSE "Failed to add tracks to playlist: " \o errText

\* *types.AddResult, without the artist and the playlist.
AddResult(success, tracksAdded, wasDuplicate, message) ==
    [Success |-> success, TracksAdded |-> tracksAdded,
     WasDuplicate |-> wasDuplicate, Message |-> message]

ServiceCall(op, args) == [op |-> op, args |-> args]

\* p.spotify.SearchArtist(artistName)
AddSearchArtist ==
    /\ apc = "entry"
    /\ serviceCalls' = Append(serviceCalls, ServiceCall("SearchArtist", <<>>))
    /\ \E failed \in BOOLEAN :
          IF failed
          THEN /\ addReturn' =
                      [err |-> "artist not found",
                       result |-> AddResult(FALSE, <<>>, FALSE,
                                            "Failed to find artist: artist not found")]
               /\ apc' = "returned"
          ELSE /\ apc' = "toptracks"
               /\ UNCHANGED addReturn
    /\ UNCHANGED <<force, hasDetector, artistTracks, detectorAnswer>>
    /\ UNCHANGED restOfAdd

\* p.spotify.GetArtistTopTracks(artist.ID) and the test for an empty list.
AddGetTopTracks ==
    /\ apc = "toptracks"
    /\ serviceCalls' = Append(serviceCalls, ServiceCall("GetArtistTopTracks", <<>>))
    /\ \/ /\ addReturn' =
                 [err |-> "spotify API error",
                  result |-> AddResult(FALSE, <<>>, FALSE,
                      "Failed to get artist's top tracks: spotify API error")]
          /\ apc' = "returned"
          /\ UNCHANGED artistTracks
       \/ \E tracks \in DupTrackLists :
             /\ artistTracks' = tracks
             /\ IF Len(tracks) = 0
                THEN /\ addReturn' =
                            [err |-> "",
                             result |-> AddResult(FALSE, <<>>, FALSE,
                                                  "Artist has no tracks available")]
                     /\ apc' = "returned"
                ELSE /\ apc' = "duplicates"
                     /\ UNCHANGED addReturn
    /\ UNCHANGED <<force, hasDetector, detectorAnswer>>
    /\ UNCHANGED restOfAdd

\* The duplicate check, unless forced or without a detector.
AddCheckArtist ==
    /\ apc = "duplicates"
    /\ IF ConsultsDetector(force, hasDetector)
       THEN /\ serviceCalls' =
                   Append(serviceCalls, ServiceCall("CheckArtistInPlaylist", <<>>))
            /\ \E answer \in DetectorAnswers :
                  /\ detectorAnswer' = answer
                  /\ IF ReportsDuplicate(answer)
                     THEN /\ addReturn' =
                                 [err |-> "",
                                  result |-> AddResult(FALSE, <<>>, TRUE, answer.Message)]
                          /\ apc' = "returned"
                     ELSE /\ apc' = "add"
                          /\ UNCHANGED addReturn
       ELSE /\ apc' = "add"
            /\ UNCHANGED <<serviceCalls, detectorAnswer, addReturn>>
    /\ UNCHANGED <<force, hasDetector, artistTracks>>
    /\ UNCHANGED restOfAdd

\* p.spotify.AddTracksToPlaylist(playlistID, trackIDs) and the two results.
AddTracks ==
    /\ apc = "add"
    /\ serviceCalls' = Append(serviceCalls,
           ServiceCall("AddTracksToPlaylist",
                       [k \in 1..Len(artistTracks) |-> artistTracks[k].ID]))
    /\ \E errText \in AddErrors :
          addReturn' =
              IF errText # ""
              THEN [err |-> errText,
                    result |-> AddResult(FALSE, artistTracks, FALSE,
                                         AddErrorMessage(errText))]
              ELSE [err |-> "",
                    result |-> AddResult(TRUE, artistTracks, FALSE,
                        "Successfully added " \o AddArtistName
                        \o "'s top tracks to playlist")]
    /\ apc' = "returned"
    /\ UNCHANGED <<force, hasDetector, artistTracks, detectorAnswer>>
    /\ UNCHANGED restOfAdd

InitAddArtist ==
    /\ SchedulerParked
    /\ FetchIdle
    /\ OthersIdle("add")
    /\ apc = "entry"
    /\ force \in BOOLEAN
    /\ hasDetector \in BOOLEAN
    /\ artistTracks = <<>>
    /\ detectorAnswer =
           [err |-> FALSE, nil |-> TRUE, HasDuplicates |-> FALSE, Message |-> "not asked"]
    /\ serviceCalls = <<>>
    /\ addReturn = [err |-> "", result |-> "pending"]

NextAddArtist == AddSearchArtist \/ AddGetTopTracks \/ AddCheckArtist \/ AddTracks

SpecAddArtist == InitAddArtist /\ [][NextAddArtist]_vars

-----------------------------------------------------------------------------
(* calculateNextSyncTime with generateSecureRandomInt.  Durations are in
   milliseconds here, so that a whole number of seconds is a property. *)

Second == 1000

\* The --interval flag: none, a minute, the default hour, two hours.
Intervals == { 0, 60 * Second, 3600 * Second, 7200 * Second }

\* time.Now().UnixNano() is a count of nanoseconds since 1970; small values
\* around the multiples of the maximum and one large value stand for it.
UnixNanos ==
    { 0, 1, MaxRandomOffset - 1, MaxRandomOffset, MaxRandomOffset + 1,
      2 * MaxRandomOffset - 1, 2000000000 }

generateSecureRandomInt_NoModulo(max, failed, n, unixNano) ==
    IF failed THEN unixNano ELSE n

\* n from rand.Int(rand.Reader, max), or time.Now().UnixNano() % max.
generateSecureRandomInt(max, failed, n, unixNano) ==
    IF failed THEN unixNano % max ELSE n

\* generateSecureRandomInt(3600)
GenerateRandom ==
    /\ tpc = "entry"
    /\ offset' = generateSecureRandomInt(MaxRandomOffset, randErr, randValue, clock)
    /\ tpc' = "generated"
    /\ UNCHANGED <<interval, randErr, randValue, clock, delay>>
    /\ UNCHANGED restOfDelay

\* randomOffset := time.Duration(n) * time.Second; return baseInterval + randomOffset
ComputeDelay ==
    /\ tpc = "generated"
    /\ delay' = calculateNextSyncTime(interval, offset * Second)
    /\ tpc' = "returned"
    /\ UNCHANGED <<interval, randErr, randValue, clock, offset>>
    /\ UNCHANGED restOfDelay

InitDelay ==
    /\ SchedulerParked
    /\ FetchIdle
    /\ OthersIdle("delay")
    /\ tpc = "entry"
    /\ interval \in Intervals
    /\ randErr \in BOOLEAN
    /\ randValue \in RandomOffsets
    /\ clock \in UnixNanos
    /\ offset = 0
    /\ delay = 0

NextDelay == GenerateRandom \/ ComputeDelay

SpecDelay == InitDelay /\ [][NextDelay]_vars

-----------------------------------------------------------------------------
(* Song.IsValid *)

ArtistTexts == BlankStrings \cup { "Miles Davis", " A " }

TitleTexts == BlankStrings \cup { "So What", " T " }

AlbumTexts == { "", "Kind of Blue" }

CallIsValid ==
    /\ vpc = "entry"
    /\ validResult' = IsValid(candidate)
    /\ vpc' = "returned"
    /\ UNCHANGED candidate
    /\ UNCHANGED restOfValid

InitValid ==
    /\ SchedulerParked
    /\ FetchIdle
    /\ OthersIdle("valid")
    /\ vpc = "entry"
    /\ candidate \in { Song(a, t, al) : a \in ArtistTexts, t \in TitleTexts, al \in AlbumTexts }
    /\ validResult = FALSE

NextValid == CallIsValid

SpecValid == InitValid /\ [][NextValid]_vars

-----------------------------------------------------------------------------
(* filterNewSongs on a feed of two records with free artist and title texts *)

PairArtists == { "", "A", "B", "A - B" }

PairTitles == { "C", "B", "B - C" }

PairSongs == { Song(a, t, "") : a \in PairArtists, t \in PairTitles }

\* filterNewSongs(songs, seenSongs) with both maps empty.
FilterPair ==
    /\ kpc = "entry"
    /\ pairResult' = filterNewSongs(recordPair, {}, {}).newSongs
    /\ kpc' = "returned"
    /\ UNCHANGED recordPair
    /\ UNCHANGED restOfKey

InitKey ==
    /\ SchedulerParked
    /\ FetchIdle
    /\ OthersIdle("key")
    /\ kpc = "entry"
    /\ recordPair \in { <<a, b>> : a \in PairSongs, b \in PairSongs }
    /\ pairResult = <<>>

NextKey == FilterPair

SpecKey == InitKey /\ [][NextKey]_vars

-----------------------------------------------------------------------------
(* Client.CompleteAuth and Client.IsAuthenticated *)

MaxAuthCalls == 3

\* state := "kmhd2spotify-auth-state"
AuthState == "kmhd2spotify-auth-state"

\* The state parameter a callback may carry; "" when it carries none.
AuthStates == { AuthState, "forged", "" }

\* The fields of a Client after NewClient, with the content of its token
\* file: no token file path; no token on disk; a stored token that failed
\* validateStoredToken; a stored token that passed it.
NewClients ==
    { [client |-> "nil", token |-> "nil", isUserAuth |-> FALSE, tokenFile |-> "",
       saved |-> "none"],
      [client |-> "nil", token |-> "nil", isUserAuth |-> FALSE, tokenFile |-> "file",
       saved |-> "none"],
      [client |-> "nil", token |-> "stored", isUserAuth |-> FALSE, tokenFile |-> "file",
       saved |-> "stored"],
      [client |-> "stored", token |-> "stored", isUserAuth |-> TRUE, tokenFile |-> "file",
       saved |-> "stored"] }

\* return c.isUserAuth && c.client != nil
IsAuthenticated(c) == c.isUserAuth /\ c.client # "nil"

\* saveTokenUnsafe: nothing to do without a path or a token; else the file is
\* replaced when the write and the rename succeed.
saveTokenUnsafe(c, writeOK) ==
    IF c.tokenFile = "" \/ c.token = "nil" THEN c
    ELSE IF writeOK THEN [c EXCEPT !.saved = c.token]
    ELSE c

\* CompleteAuth(code, state) is called and compares the state parameter.
CompleteAuth ==
    /\ upc \in { "idle", "returned" }
    /\ authCalls < MaxAuthCalls
    /\ authCalls' = authCalls + 1
    /\ authBefore' = IsAuthenticated(authClient)
    /\ \E state \in AuthStates :
          /\ givenState' = state
          /\ IF state # AuthState
             THEN authErr' = "invalid state parameter" /\ upc' = "returned"
             ELSE authErr' = "" /\ upc' = "exchange"
    /\ UNCHANGED authClient
    /\ UNCHANGED restOfAuth

\* token, err := c.auth.Exchange(c.ctx, code), and the fields set from it.
AuthExchange ==
    /\ upc = "exchange"
    /\ \E ok \in BOOLEAN :
          IF ~ok
          THEN /\ authErr' = "failed to exchange code for token"
               /\ upc' = "returned"
               /\ UNCHANGED authClient
          ELSE /\ authClient' = [authClient EXCEPT !.token = "new", !.isUserAuth = TRUE,
                                                  !.client = "new"]
               /\ upc' = "verify"
               /\ UNCHANGED authErr
    /\ UNCHANGED <<givenState, authBefore, authCalls>>
    /\ UNCHANGED restOfAuth

\* user, err := c.client.CurrentUser(c.ctx), then the token is saved.
AuthVerify ==
    /\ upc = "verify"
    /\ \E ok \in BOOLEAN, writeOK \in BOOLEAN :
          IF ~ok
          THEN /\ authErr' = "authentication verification failed"
               /\ UNCHANGED authClient
          ELSE /\ authClient' = saveTokenUnsafe(authClient, writeOK)
               /\ UNCHANGED authErr
    /\ upc' = "returned"
    /\ UNCHANGED <<givenState, authBefore, authCalls>>
    /\ UNCHANGED restOfAuth

\* A client as NewClient built it, before any callback.
InitAuth ==
    /\ SchedulerParked
    /\ FetchIdle
    /\ OthersIdle("auth")
    /\ upc = "idle"
    /\ authClient \in NewClients
    /\ givenState = ""
    /\ authBefore = FALSE
    /\ authErr = ""
    /\ authCalls = 0

NextAuth == CompleteAuth \/ AuthExchange \/ AuthVerify

SpecAuth == InitAuth /\ [][NextAuth]_vars

-----------------------------------------------------------------------------
(* syncSongsToSpotify with the matcher run in full for every record *)

\* The catalog's id of a track of CatalogTracks.
TrackIDOf(t) == IF t.Name \in { "a", "A ", "" } THEN "t1" ELSE "t2"

\* The *SongMatch of the matcher, as syncSongsToSpotify reads it.
AsSongMatch(r, tracks) ==
    IF r.err # "" THEN NoMatch
    ELSE [err |-> FALSE, TrackID |-> TrackIDOf(tracks[r.Track]),
          ArtistConfidence |-> r.ArtistConfidence, SongConfidence |-> r.SongConfidence,
          AlbumConfidence |-> r.AlbumConfidence, OverallConfidence |-> r.OverallConfidence]

\* fuzzySongSearcher.FindBestSongMatchWithAlbum(song.Artist, song.Title, song.Album)
\* is entered; the catalog will answer with foundArtist and topTracks.
MatchCall ==
    /\ pc = "match"
    /\ mpc = "idle"
    /\ artistQuery' = newSongs[i].Artist
    /\ songQuery' = newSongs[i].Title
    /\ albumQuery' = newSongs[i].Album
    /\ foundArtist' \in ArtistNames
    /\ topTracks' \in TrackLists
    /\ mpc' = "entry"
    /\ UNCHANGED <<wrapped, artistConf, ti, best, matchLog, matchReturn, catalogCalls>>
    /\ UNCHANGED restOfMatch

\* The matcher has returned: the step Match, taken on what it returned.
MatchReturn ==
    /\ pc = "match"
    /\ mpc = "returned"
    /\ LET m == AsSongMatch(matchReturn, topTracks)
       IN  /\ callLog' = Append(callLog,
                  Call("FindBestSongMatchWithAlbum", i, IF m.err THEN "error" ELSE "ok"))
           /\ IF m.err THEN RecordDone("no_match")
              ELSE IF IsLowConfidence(m) THEN RecordDone("low_confidence")
              ELSE /\ songMatch' = m
                   /\ pc' = "check"
                   /\ UNCHANGED <<i, existing, syncedCount, skippedCount, outcomes>>
    /\ mpc' = "idle"
    /\ artistQuery' = "" /\ songQuery' = "" /\ albumQuery' = ""
    /\ foundArtist' = ""
    /\ topTracks' = <<>>
    /\ artistConf' = 0
    /\ ti' = 0
    /\ best' = [index |-> 0, song |-> 0, album |-> 0, overall |-> 0]
    /\ matchLog' = <<>>
    /\ matchReturn' = [err |-> "pending"]
    /\ catalogCalls' = <<>>
    /\ UNCHANGED <<wrapped, continuous, prefix, now, ticks, userPlaylists, targetPlaylist,
                   createCalls, globalSeenSongs, seenSongs, lastFeed, fetchResult,
                   newSongs, timesNew, nextSyncDuration>>
    /\ UNCHANGED <<fetchVars, resolveVars, parseVars, confVars, dupVars, addVars, delayVars,
                   validVars, keyVars, authVars>>

\* A single pass of the process, or a call of the matcher by another caller.
InitRecord == InitSingle \/ InitMatch

NextRecord ==
    RunSync \/ RunSingleSync \/ MatchCall \/ FindBestSongMatch \/ SearchArtist
    \/ GetArtistTopTracks \/ ReturnFirstTrack \/ ScoreFirstTrack \/ ScoreTrack \/ ReturnBest
    \/ MatchReturn \/ Check \/ Add

SpecRecord == InitRecord /\ [][NextRecord]_vars

-----------------------------------------------------------------------------
(* Properties of the scheduler, checked under Spec (C4 under FairSpec) *)

Last(q) == q[Len(q)]

\* A catalog call was made in this step.
Called(op) == Len(callLog') = Len(callLog) + 1 /\ Last(callLog').op = op

CallsOf(op) == SelectSeq(callLog, LAMBDA c : c.op = op)

CycleOver == pc \in { "schedule", "done" }

C2_AllRecordsAttempted ==
    /\ \A k \in 1..Len(CallsOf("FindBestSongMatchWithAlbum")) :
          CallsOf("FindBestSongMatchWithAlbum")[k].rec = k
    /\ Len(outcomes) <= Len(CallsOf("FindBestSongMatchWithAlbum"))
    /\ (CycleOver /\ fetchResult = "ok")
          => /\ Len(CallsOf("FindBestSongMatchWithAlbum")) = Len(newSongs)
             /\ Len(outcomes) = Len(newSongs)

\* Two records were new, the first failed, and the second was matched too.
C2_Witness ==
    /\ CycleOver /\ Len(newSongs) = 2
    /\ outcomes[1] \in Failures
    /\ Len(CallsOf("FindBestSongMatchWithAlbum")) = 2

\* C3: a fetch error ends runSingleSync at once: no catalog call is made for the
\* cycle, no record gets an outcome, and the cycle map, the process-lifetime
\* map and the playlists are as they were.
C3_FetchErrorProcessesNothing ==
    [][ /\ (pc = "fetch" /\ fetchResult' = "error")
              => /\ pc' \in { "schedule", "done" }
                 /\ UNCHANGED <<seenSongs, globalSeenSongs, timesNew, userPlaylists,
                                newSongs, outcomes, callLog, syncedCount, skippedCount>>
        /\ fetchResult' = "error"
              => callLog' = <<>> /\ outcomes' = <<>> /\ newSongs' = <<>> /\ pc' # "match" ]_vars

\* A later cycle's fetch failed, after an earlier cycle had filled the
\* process-lifetime map.
C3_Witness ==
    /\ fetchResult = "error" /\ CycleOver
    /\ globalSeenSongs # {} /\ seenSongs = {}

InLoop == pc \in { "fetch", "match", "check", "add", "schedule", "sleep" }

\* C4: in continuous mode the loop is never left, and every cycle, however it
\* ended, is followed by the sleep and the sleep by the start of another
\* cycle with a fresh cycle map: cycles are run for ever.
C4_SchedulerSurvives ==
    /\ [][(continuous /\ InLoop) => InLoop']_vars
    /\ (continuous /\ InLoop) ~> (pc = "sleep")
    /\ (pc = "sleep") ~> (pc = "fetch" /\ seenSongs = {})

\* A continuous run is asleep after a cycle whose fetch failed, in a process
\* that has already run a cycle with new records.
C4_Witness ==
    /\ continuous /\ pc = "sleep"
    /\ fetchResult = "error"
    /\ globalSeenSongs # {}

\* C5: AddTracksToPlaylist is called only for a record whose matcher call
\* returned a match with overall confidence >= 0.5.
C5_WriteOnlyAfterConfidentMatch ==
    [][ /\ Called("AddTracksToPlaylist")
              => /\ ~songMatch.err
                 /\ songMatch.OverallConfidence >= ConfidenceThreshold
                 /\ \E k \in 1..Len(callLog) :
                       callLog[k] = Call("FindBestSongMatchWithAlbum", Last(callLog').rec, "ok")
        /\ (Called("FindBestSongMatchWithAlbum") /\ pc' = "check")
              => ~songMatch'.err /\ songMatch'.OverallConfidence >= ConfidenceThreshold ]_vars

\* A match whose overall confidence is exactly 0.5 has reached the write.
C5_Witness ==
    /\ pc = "add"
    /\ songMatch.OverallConfidence = ConfidenceThreshold

\* C6: when the membership check succeeds and reports the matched track as
\* present, no write is made for that record and the record counts as skipped.
C6_DuplicateIsSkipped ==
    [][ /\ (Called("CheckTracksInPlaylist") /\ Last(callLog').result = "present")
              => /\ pc' # "add"
                 /\ skippedCount' = skippedCount + 1
                 /\ syncedCount' = syncedCount
                 /\ outcomes' = Append(outcomes, "duplicate")
                 /\ userPlaylists' = userPlaylists
        /\ \A a, c \in 1..Len(callLog') :
              (callLog'[c].op = "CheckTracksInPlaylist" /\ callLog'[c].result = "present")
                 => ~(callLog'[a].op = "AddTracksToPlaylist" /\ callLog'[a].rec = callLog'[c].rec) ]_vars

\* A record was found in the playlist and skipped, and the loop went on.
C6_Witness ==
    /\ Len(outcomes) >= 2
    /\ outcomes[1] = "duplicate"
    /\ \E c \in 1..Len(callLog) : callLog[c] = Call("CheckTracksInPlaylist", 1, "present")

\* C7: when the membership check fails, the record goes on to the write: the
\* next call is AddTracksToPlaylist for the same record, and neither the
\* record nor the cycle ends at the check.
C7_CheckErrorStillWrites ==
    [][ /\ (Called("CheckTracksInPlaylist") /\ Last(callLog').result = "error")
              => /\ pc' = "add"
                 /\ UNCHANGED <<i, outcomes, syncedCount, skippedCount, songMatch>>
        /\ (pc = "add" /\ pc' # "add")
              => Called("AddTracksToPlaylist") /\ Last(callLog').rec = i ]_vars

\* A check failed and the write for the same record followed and succeeded.
C7_Witness ==
    \E c \in 1..Len(callLog) :
        /\ callLog[c] = Call("CheckTracksInPlaylist", 1, "error")
        /\ c < Len(callLog)
        /\ callLog[c + 1] = Call("AddTracksToPlaylist", 1, "ok")

\* This cycle is not the first one that found new records: the
\* process-lifetime map holds a key that none of this cycle's records has.
LaterCycle ==
    \E k \in globalSeenSongs : \A n \in 1..Len(newSongs) : SongKey(newSongs[n]) # k

\* C10: with a non-empty prefix, a write made in continuous mode by a later
\* cycle goes to the playlist "{prefix}-YYYY-MM" of the month of the write.
C10_WritesGoToCurrentMonth ==
    (pc = "add" /\ prefix # "" /\ continuous /\ LaterCycle)
        => targetPlaylist.Name = monthlyPlaylistName(prefix, now)

-----------------------------------------------------------------------------
(* Properties of FetchPlaylist, checked under SpecFetch *)

Transient(r) == r.err \/ r.StatusCode \in { StatusBadGateway, StatusGatewayTimeout }

\* C8: one FetchPlaylist call makes at most 3 requests, sleeps 2s after a failed
\* first and 4s after a failed second attempt and not after the third, returns
\* the collection when the last of its 1 to 3 requests is answered 200 with a
\* decodable body, and returns an error when all three attempts fail.
C8_RetryBudget ==
    /\ Len(responses) <= 3
    /\ waits \in { <<>>, <<2>>, <<2, 4>> }
    /\ (fpc \in { "after_loop", "returned" }) => Len(waits) = Len(responses) - 1
    /\ (fpc = "request") => Len(waits) = Len(responses)
    /\ (fpc = "returned" /\ Last(responses) = Response(StatusOK) /\ body = "json_array")
          => fetchReturn = Returned("", "collection")
    /\ (fpc = "returned" /\ Len(responses) = 3 /\ \A k \in 1..3 : Transient(responses[k]))
          => fetchReturn.err # "" /\ fetchReturn.value = "nil"

\* Two transient failures, then a 200 on the third attempt: the call waited
\* 2s and 4s and returned the collection.
C8_Witness ==
    /\ fpc = "returned"
    /\ Len(responses) = 3 /\ responses[3] = Response(StatusOK)
    /\ waits = <<2, 4>>
    /\ fetchReturn = Returned("", "collection")

\* C9: only a network error, a 502 or a 504 is followed by another request;
\* any other status, and a 200 whose body does not decode, ends the call with
\* an error and without a retry or wait: after a first answer of that kind the
\* call has made exactly one request.
C9_OnlyTransientRetried ==
    /\ \A k \in 1..Len(responses) : (k < Len(responses)) => Transient(responses[k])
    /\ (Len(responses) >= 1 /\ ~Transient(responses[1]))
          => /\ Len(responses) = 1 /\ waits = <<>> /\ fpc # "request"
             /\ (fpc = "returned" /\ responses[1].StatusCode # StatusOK)
                   => fetchReturn = Returned("bad_status", "nil")
             /\ (fpc = "returned" /\ responses[1].StatusCode = StatusOK /\ body = "malformed")
                   => fetchReturn = Returned("decode_failed", "nil")
    /\ (fpc = "returned" /\ body = "malformed") => fetchReturn.err = "decode_failed"

\* A first answer of 500 ended the call with an error after one request.
C9_Witness ==
    /\ fpc = "returned"
    /\ responses = << Response(500) >>
    /\ waits = <<>>
    /\ fetchReturn = Returned("bad_status", "nil")

-----------------------------------------------------------------------------
(* getOrCreateMonthlyPlaylist *)

\* The name of the month's playlist, written out for the months of the model.
ExpectedMonthlyName(t) ==
    CASE t = [year |-> 2025, month |-> 12] -> "KMHD-2025-12"
      [] t = [year |-> 2026, month |-> 1]  -> "KMHD-2026-01"
      [] t = [year |-> 2026, month |-> 2]  -> "KMHD-2026-02"
      [] t = [year |-> 2026, month |-> 3]  -> "KMHD-2026-03"
      [] OTHER -> "unexpected"

Listed(name) == \E k \in 1..Len(userPlaylists) : userPlaylists[k].Name = name

ResolveStep == pc = "resolver" /\ resolveCalls' = resolveCalls + 1

\* C11: with a non-empty prefix a successful call returns a playlist named
\* "{prefix}-YYYY-MM" for the current month; when a playlist of that name is
\* listed, the call returns the first such playlist and creates nothing (so
\* a second call in the same month, with the created playlist listed,
\* creates nothing more); when none is listed it calls CreatePlaylist exactly
\* once, with that name.
C11_MonthlyPlaylistFoundOrCreated ==
    [][ (ResolveStep /\ prefix # "" /\ resolved'.listOK) =>
          LET name == ExpectedMonthlyName(now)
          IN  /\ ~resolved'.err => targetPlaylist'.Name = name
              /\ Listed(name) =>
                    /\ ~resolved'.err
                    /\ createLog' = createLog
                    /\ userPlaylists' = userPlaylists
                    /\ targetPlaylist' = Handle(userPlaylists[
                           CHOOSE k \in 1..Len(userPlaylists) :
                              /\ userPlaylists[k].Name = name
                              /\ \A n \in 1..(k - 1) : userPlaylists[n].Name # name])
              /\ ~Listed(name) =>
                    /\ createLog' = Append(createLog, name)
                    /\ ~resolved'.err =>
                          /\ Len(userPlaylists') = Len(userPlaylists) + 1
                          /\ targetPlaylist' = Handle(userPlaylists'[Len(userPlaylists')])
    ]_vars

\* Two calls in January: the first created the playlist, the second found it.
C11_Witness ==
    /\ pc = "resolver" /\ prefix = "KMHD" /\ resolveCalls = 2
    /\ now = [year |-> 2026, month |-> 1]
    /\ createLog = << "KMHD-2026-01" >>
    /\ ~resolved.err
    /\ targetPlaylist.Name = "KMHD-2026-01"

\* C12: with an empty prefix the call never calls CreatePlaylist; it returns
\* the first listed playlist, or an error when the list is empty; and for any
\* prefix it returns an error when listing the playlists fails.
C12_EmptyPrefixUsesFirstPlaylist ==
    [][ ResolveStep =>
          /\ prefix = "" =>
                /\ createLog' = createLog
                /\ userPlaylists' = userPlaylists
                /\ (resolved'.listOK /\ Len(userPlaylists) > 0) =>
                      ~resolved'.err /\ targetPlaylist' = Handle(userPlaylists[1])
                /\ (resolved'.listOK /\ Len(userPlaylists) = 0) =>
                      resolved'.err /\ targetPlaylist' = NoPlaylist
          /\ ~resolved'.listOK =>
                /\ resolved'.err /\ targetPlaylist' = NoPlaylist
                /\ createLog' = createLog
    ]_vars

\* With an empty prefix and two playlists listed, a call has returned the
\* first of them.
C12_Witness ==
    /\ pc = "resolver" /\ prefix = "" /\ resolveCalls > 0
    /\ Len(userPlaylists) = 2 /\ resolved.listOK /\ ~resolved.err
    /\ targetPlaylist = Handle(userPlaylists[1])

-----------------------------------------------------------------------------
(* parseResponse *)

Spaces(n) == [k \in 1..n |-> " "]

\* t is v without the spaces around it.
IsTrimOf(t, v) ==
    /\ Len(t) > 0 => CharAt(t, 1) # " " /\ CharAt(t, Len(t)) # " "
    /\ \E m \in 0..Len(v), n \in 0..Len(v) :
          /\ m + Len(t) + n = Len(v)
          /\ SubSeq(v, m + 1, m + Len(t)) = t
          /\ \A k \in (1..m) \cup ((m + Len(t) + 1)..Len(v)) : CharAt(v, k) = " "

HasText(v) == \E k \in 1..Len(v) : CharAt(v, k) # " "

\* The entry is a JSON object whose artist and title are non-empty strings.
Present(e) ==
    /\ e.json = "object"
    /\ e.artistName.kind = "string" /\ e.artistName.value # ""
    /\ e.trackName.kind = "string" /\ e.trackName.value # ""

\* ... and each of them holds more than white space.
PresentTrimmed(e) ==
    /\ Present(e)
    /\ HasText(e.artistName.value) /\ HasText(e.trackName.value)

ParseStep == ppc = "loop" /\ rawIndex' = rawIndex + 1

\* C13, as the claim states it: the collection holds exactly the entries
\* whose artist and title are both present and non-empty.
C13_KeepsEveryNonEmptyEntry ==
    [][ ParseStep =>
          LET e == apiResponse[rawIndex]
          IN  IF Present(e) THEN Len(collection') = Len(collection) + 1
              ELSE collection' = collection
    ]_vars

\* C13, amended: parseResponse returns without error, and the collection
\* holds, in feed order, exactly the entries that are JSON objects whose
\* artist and title are strings with text left after trimming white space,
\* with artist, title and album trimmed; every other entry is skipped.
C13_KeepsEveryEntryWithText ==
    /\ [][ ParseStep =>
             LET e == apiResponse[rawIndex]
             IN  IF PresentTrimmed(e)
                 THEN /\ Len(collection') = Len(collection) + 1
                      /\ SubSeq(collection', 1, Len(collection)) = collection
                      /\ LET song == collection'[Len(collection')]
                         IN  /\ IsTrimOf(song.Artist, e.artistName.value)
                             /\ IsTrimOf(song.Title, e.trackName.value)
                             /\ IsTrimOf(song.Album, AsString(e.collectionName))
                 ELSE collection' = collection
       ]_vars
    /\ [](ppc = "returned" =>
             /\ ~parseReturn.err
             /\ parseReturn.value = collection
             /\ rawIndex = Len(apiResponse) + 1)

\* A batch of a malformed entry and an entry with spaces around its fields
\* has been parsed into one song.
C13_Witness ==
    /\ ppc = "returned"
    /\ Len(apiResponse) = 2
    /\ apiResponse[1].json = "malformed"
    /\ apiResponse[2].artistName = Str(" B ")
    /\ parseReturn.value = << Song("B", "T", "") >>

-----------------------------------------------------------------------------
(* calculateAlbumConfidence and calculateMatchConfidence *)

\* C18, as the claim states it: 0.5 when the album query is empty or white
\* space, or the track is nil or has an empty album name; in every other
\* case the result of calculateMatchConfidence(albumQuery, album name).
C18_NeutralOnlyForEmptyAlbum ==
    "album" \in cpc =>
        albumResult =
            IF ~HasText(query) \/ track.nil \/ track.Album = "" THEN 500
            ELSE calculateMatchConfidence(query, track.Album, fuzzyScore)

\* C18, amended: calculateAlbumConfidence returns exactly 0.5 whenever the
\* album query is empty or white space only, or the track is nil or its album
\* name is empty or white space only; in every other case it returns
\* calculateMatchConfidence(albumQuery, album name).
C18_NeutralForBlankAlbum ==
    "album" \in cpc =>
        albumResult =
            IF ~HasText(query) \/ track.nil \/ ~HasText(track.Album) THEN 500
            ELSE calculateMatchConfidence(query, track.Album, fuzzyScore)

\* The album confidence of a query against a track whose album name is
\* white space only has been calculated.
C18_Witness ==
    /\ "album" \in cpc
    /\ query = "ab" /\ ~track.nil /\ track.Album = " "
    /\ albumResult = 500

\* C19: calculateMatchConfidence compares the lower-cased, trimmed strings:
\* equal gives 1.0; else the candidate containing the query gives
\* 0.8 + 0.2*len(query)/len(candidate); else the query containing the
\* candidate gives 0.7 + 0.2*len(candidate)/len(query); else the result lies
\* in [0.1, 0.7] and is 0.1 when the fuzzy scorer finds no match.
C19_MatchConfidenceCases ==
    "match" \in cpc =>
        LET nq == Normalize(query)
            nc == Normalize(track.Name)
            c == matchResult
        IN  IF nq = nc THEN c = 1000
            ELSE IF Contains(nc, nq)
                 THEN c * Len(nc) <= 800 * Len(nc) + 200 * Len(nq)
                      /\ 800 * Len(nc) + 200 * Len(nq) < (c + 1) * Len(nc)
            ELSE IF Contains(nq, nc)
                 THEN c * Len(nq) <= 700 * Len(nq) + 200 * Len(nc)
                      /\ 700 * Len(nq) + 200 * Len(nc) < (c + 1) * Len(nq)
            ELSE /\ 100 <= c /\ c <= 700
                 /\ ~IsSubsequence(nq, nc) => c = 100
                 /\ IsSubsequence(nq, nc) =>
                       c = IF fuzzyScore * 700 > 700 * 2 * Len(nq) THEN 700
                           ELSE IF fuzzyScore * 700 < 100 * 2 * Len(nq) THEN 100
                           ELSE (fuzzyScore * 700) \div (2 * Len(nq))

\* The query "aab" has been scored against " aB", which it contains after
\* normalisation: 0.7 + 0.2 * 2/3.
C19_Witness ==
    /\ "match" \in cpc
    /\ query = "aab" /\ track.Name = " aB"
    /\ matchResult = 833

-----------------------------------------------------------------------------
(* FindBestSongMatchWithAlbum *)

MatchReturned == mpc = "returned" /\ matchReturn.err = ""

\* The song query holds text, so the tracks are scored.
ScoredPath == HasText(songQuery)

\* C14: the overall confidence of every returned match is
\* 0.5*artist + 0.35*song + 0.15*album of the confidences it reports, on the
\* path without a song query and on the scored path; 0.9, 0.6 and 0.5 give
\* 0.735.
C14_WeightingLaw ==
    /\ MatchReturned =>
          matchReturn.OverallConfidence =
              500 * matchReturn.ArtistConfidence + 350 * matchReturn.SongConfidence
              + 150 * matchReturn.AlbumConfidence
    /\ OverallConfidence(900, 600, 500) = 735000

\* A match with three different confidences has been returned on the scored
\* path.
C14_Witness ==
    /\ MatchReturned /\ ScoredPath
    /\ matchReturn.ArtistConfidence = 900
    /\ matchReturn.SongConfidence = 700
    /\ matchReturn.AlbumConfidence = 500

\* C15: with a song query, the returned track has the greatest overall
\* confidence among the artist's top tracks, is the first of the list that
\* has it, and the song, album and overall confidence reported are the ones
\* calculated for that track.
C15_FirstBestTrack ==
    (MatchReturned /\ ScoredPath) =>
        /\ Len(matchLog) = Len(topTracks)
        /\ \A k \in 1..Len(matchLog) : matchLog[k].index = k
        /\ LET r == matchReturn
           IN  /\ r.Track \in 1..Len(topTracks)
               /\ \A k \in 1..Len(matchLog) : matchLog[k].overall <= r.OverallConfidence
               /\ \A k \in 1..(r.Track - 1) : matchLog[k].overall < r.OverallConfidence
               /\ r.SongConfidence = matchLog[r.Track].song
               /\ r.AlbumConfidence = matchLog[r.Track].album
               /\ r.OverallConfidence = matchLog[r.Track].overall

\* Two tracks share the greatest overall confidence and the first of them
\* has been returned.
C15_Witness ==
    /\ MatchReturned /\ ScoredPath
    /\ Len(topTracks) = 2
    /\ topTracks[1] # topTracks[2]
    /\ matchLog[1].overall = matchLog[2].overall
    /\ matchReturn.Track = 1

\* C16: every confidence the matcher produces lies in [0.0, 1.0]: the
\* artist's, each track's song, album and overall confidence, and those of
\* the returned match, for empty strings and for a query longer than the
\* candidate as well.
C16_ConfidencesInUnitInterval ==
    /\ artistConf \in 0..1000
    /\ \A k \in 1..Len(matchLog) :
          /\ matchLog[k].song \in 0..1000
          /\ matchLog[k].album \in 0..1000
          /\ matchLog[k].overall \in 0..1000000
    /\ MatchReturned =>
          /\ matchReturn.ArtistConfidence \in 0..1000
          /\ matchReturn.SongConfidence \in 0..1000
          /\ matchReturn.AlbumConfidence \in 0..1000
          /\ matchReturn.OverallConfidence \in 0..1000000

\* The query "ab" has been scored against the track "a b" by the fuzzy
\* scorer and against a track with an empty name.
C16_Witness ==
    /\ MatchReturned
    /\ songQuery = "ab"
    /\ topTracks = << Track("a b", " "), Track("", "a") >>
    /\ matchLog[1].song = 700
    /\ matchLog[2].song = 700

SameLetter(c, d) == c = d \/ {c, d} \in { {"a", "A"}, {"b", "B"} }

\* s and t are equal when white space around them and case are ignored.
EqualFold(s, t) ==
    \E cs \in { SubSeq(s, x, y) : x \in 1..(Len(s) + 1), y \in 0..Len(s) },
       ct \in { SubSeq(t, x, y) : x \in 1..(Len(t) + 1), y \in 0..Len(t) } :
          /\ IsTrimOf(cs, s) /\ IsTrimOf(ct, t)
          /\ Len(cs) = Len(ct)
          /\ \A k \in 1..Len(cs) : SameLetter(CharAt(cs, k), CharAt(ct, k))

\* Track k carries the song query as its name and the album query as its
\* album name.
ExactTrack(k) ==
    /\ EqualFold(songQuery, topTracks[k].Name)
    /\ topTracks[k].Album # ""
    /\ EqualFold(albumQuery, topTracks[k].Album)

AllPerfect ==
    /\ matchReturn.ArtistConfidence = 1000
    /\ matchReturn.SongConfidence = 1000
    /\ matchReturn.AlbumConfidence = 1000
    /\ matchReturn.OverallConfidence = 1000000
    /\ ExactTrack(matchReturn.Track)

\* C17, as the claim states it: when the three queries equal the found
\* artist's name, the name of one of the top tracks and that track's
\* non-empty album name, the match returned is such a track with all four
\* confidences 1.0.
C17_ExactMatchIsPerfect ==
    (MatchReturned /\ EqualFold(artistQuery, foundArtist)
       /\ \E k \in 1..Len(topTracks) : ExactTrack(k))
    => AllPerfect

\* C17, amended: the same, for a song query and an album name that hold
\* more than white space.
C17_ExactMatchWithTextIsPerfect ==
    (MatchReturned /\ EqualFold(artistQuery, foundArtist) /\ HasText(songQuery)
       /\ \E k \in 1..Len(topTracks) : ExactTrack(k) /\ HasText(topTracks[k].Album))
    => AllPerfect

\* "A ", "a", "A" has been matched against the artist "a" whose second track
\* is "A " of the album "a".
C17_Witness ==
    /\ MatchReturned
    /\ artistQuery = "A " /\ songQuery = "a" /\ albumQuery = "A"
    /\ foundArtist = "a"
    /\ topTracks = << Track("ab", ""), Track("A ", "a") >>
    /\ matchReturn.Track = 2
    /\ matchReturn.OverallConfidence = 1000000

\* C20: without a song query (empty or white space only) the match returned
\* is the first top track with song confidence 1.0, and no other track has
\* been scored; a call through FindBestSongMatch(a, s) runs
\* FindBestSongMatchWithAlbum(a, s, "").
C20_NoSongQueryReturnsFirstTrack ==
    /\ []((MatchReturned /\ ~HasText(songQuery)) =>
             /\ matchReturn.Track = 1
             /\ matchReturn.SongConfidence = 1000
             /\ matchReturn.SongQuery = ""
             /\ Len(matchLog) = 1 /\ matchLog[1].index = 1
             /\ ti = 0)
    /\ []((wrapped /\ mpc # "wrapper") =>
             /\ albumQuery = ""
             /\ \A k \in 1..Len(matchLog) : matchLog[k].album = 500)
    /\ [][ mpc = "wrapper" =>
             /\ mpc' = "entry"
             /\ artistQuery' = artistQuery /\ songQuery' = songQuery /\ albumQuery' = ""
             /\ UNCHANGED <<foundArtist, topTracks, artistConf, ti, best, matchLog, matchReturn>>
       ]_vars

\* A call through FindBestSongMatch with a song query of white space, against
\* two tracks, has returned the first.
C20_Witness ==
    /\ MatchReturned /\ wrapped
    /\ songQuery = " "
    /\ Len(topTracks) = 2
    /\ matchReturn.Track = 1 /\ matchReturn.SongConfidence = 1000

-----------------------------------------------------------------------------
(* CheckDuplicates, checked under SpecDuplicates *)

DupReturned == dpc = "returned"

\* The positions of the input whose membership flag is true.
Flagged ==
    { k \in 1..Len(dupTracks) : k <= Len(existsResults.flags) /\ existsResults.flags[k] }

\* The j-th smallest flagged position.
NthFlagged(j) == CHOOSE k \in Flagged : Cardinality({ m \in Flagged : m <= k }) = j

\* C21: CheckDuplicates with an empty track list returns HasDuplicates=false,
\* the message "No tracks to check", no duplicate tracks and a zero LastAdded,
\* without an error, and never calls the remote membership check.
C21_EmptyListNeedsNoRemoteCheck ==
    (dupTracks = <<>> /\ dpc # "idle") =>
        /\ remoteChecks = <<>>
        /\ dpc \in {"entry", "returned"}
        /\ DupReturned =>
              /\ ~dupReturn.err
              /\ dupReturn.result.HasDuplicates = FALSE
              /\ dupReturn.result.Message = "No tracks to check"
              /\ dupReturn.result.DuplicateTracks = <<>>
              /\ dupReturn.result.LastAdded = "zero"

C21_Witness == DupReturned /\ dupTracks = <<>> /\ ~dupReturn.err

\* C22: for a non-empty track list, a failed remote membership check gives a
\* nil result and an error; otherwise DuplicateTracks is exactly the input
\* tracks whose flag is true, in input order, HasDuplicates is true if and only
\* if that list is non-empty, and the message names every duplicate track.
C22_DuplicatesAreTheFlaggedTracks ==
    (DupReturned /\ dupTracks # <<>>) =>
        /\ Len(remoteChecks) = 1
        /\ IF existsResults.err
           THEN dupReturn.err /\ dupReturn.result = "nil"
           ELSE /\ ~dupReturn.err
                /\ LET r == dupReturn.result
                   IN /\ Len(r.DuplicateTracks) = Cardinality(Flagged)
                      /\ \A j \in 1..Len(r.DuplicateTracks) :
                            r.DuplicateTracks[j] = dupTracks[NthFlagged(j)]
                      /\ r.HasDuplicates <=> (Flagged # {})
                      /\ \A k \in Flagged : Contains(r.Message, dupTracks[k].Name)
                      /\ Flagged = {} => r.Message = "No duplicate tracks found"

C22_Witness ==
    /\ DupReturned
    /\ Len(dupTracks) = 2
    /\ ~existsResults.err
    /\ Flagged = {2}
    /\ dupReturn.result.DuplicateTracks = <<dupTracks[2]>>

-----------------------------------------------------------------------------
(* AddArtistToPlaylist, checked under SpecAddArtist *)

AddReturned == apc = "returned"

ServiceCallsOf(op) == { k \in 1..Len(serviceCalls) : serviceCalls[k].op = op }

DetectorSaidDuplicate ==
    /\ ~detectorAnswer.err /\ ~detectorAnswer.nil /\ detectorAnswer.HasDuplicates

\* C23: with force=true AddArtistToPlaylist never consults the duplicate
\* detector and, once the artist and its tracks are found, adds all of them in
\* one AddTracksToPlaylist call; with force=false and a detector that reports
\* duplicates it makes no AddTracksToPlaylist call and returns Success=false,
\* WasDuplicate=true with a nil error. None of its steps touches the
\* scheduler's seen maps.
C23_ForceSkipsDetectorOnly ==
    /\ [](force => ServiceCallsOf("CheckArtistInPlaylist") = {})
    /\ []((force /\ AddReturned /\ artistTracks # <<>>) =>
            /\ Cardinality(ServiceCallsOf("AddTracksToPlaylist")) = 1
            /\ Last(serviceCalls).op = "AddTracksToPlaylist"
            /\ Last(serviceCalls).args
                   = [k \in 1..Len(artistTracks) |-> artistTracks[k].ID])
    /\ []((~force /\ DetectorSaidDuplicate) =>
            /\ ServiceCallsOf("AddTracksToPlaylist") = {}
            /\ AddReturned
            /\ addReturn.err = ""
            /\ addReturn.result.Success = FALSE
            /\ addReturn.result.WasDuplicate = TRUE)
    /\ [][UNCHANGED <<globalSeenSongs, seenSongs>>]_vars

C23_Witness ==
    /\ force /\ hasDetector /\ AddReturned
    /\ Len(artistTracks) = 2
    /\ addReturn.result.Success = TRUE

C23_DuplicateWitness ==
    ~force /\ DetectorSaidDuplicate /\ AddReturned /\ addReturn.result.WasDuplicate

\* The error texts of the model that speak of rate limiting, classified by hand.
RateLimitTexts ==
    { "HTTP 429: Rate limit exceeded", "Rate limit exceeded, please try again",
      "RATE LIMIT", "status 429" }

AddFailed == AddReturned /\ ServiceCallsOf("AddTracksToPlaylist") # {} /\ addReturn.err # ""

\* C24: when AddTracksToPlaylist fails, the result has Success=false and the
\* error is returned; the message is the rate-limit message if and only if the
\* lower-cased error text contains "rate limit" or "429", and otherwise is
\* "Failed to add tracks to playlist: " followed by the error text.
C24_RateLimitMessage ==
    AddFailed =>
        /\ addReturn.result.Success = FALSE
        /\ addReturn.err \in AddErrors
        /\ (addReturn.result.Message
               = "Rate limited by Spotify API. Please try again later.")
           <=> (addReturn.err \in RateLimitTexts)
        /\ addReturn.err \notin RateLimitTexts =>
              addReturn.result.Message
                  = "Failed to add tracks to playlist: " \o addReturn.err

C24_Witness ==
    /\ AddFailed
    /\ addReturn.err = "Rate limit exceeded, please try again"
    /\ addReturn.result.Message = "Rate limited by Spotify API. Please try again later."

C24_GenericWitness ==
    AddFailed /\ addReturn.err = "rate-limit reached"

-----------------------------------------------------------------------------
(* calculateNextSyncTime, checked under SpecDelay *)

SixtyMinutes == 60 * 60 * Second

\* C25: every delay computed by calculateNextSyncTime(base) satisfies
\* base <= delay <= base + 60 minutes and exceeds the base by a whole number of
\* seconds, whether the offset came from the secure random source or from the
\* time-based fallback.
C25_DelayWithinTheHour ==
    tpc = "returned" =>
        /\ interval <= delay
        /\ delay <= interval + SixtyMinutes
        /\ (delay - interval) % Second = 0

C25_Witness ==
    /\ tpc = "returned"
    /\ randErr
    /\ clock > MaxRandomOffset
    /\ delay > interval

-----------------------------------------------------------------------------
(* The two seen maps, checked under Spec *)

\* C26: in continuous mode every cycle, the first one included, starts with an
\* empty cycle map, and the process-lifetime map is never cleared or shrunk:
\* every step keeps all of its keys.
C26_FreshCycleMapGrowingGlobalMap ==
    /\ [](pc = "fetch" => seenSongs = {})
    /\ [][globalSeenSongs \subseteq globalSeenSongs']_vars

C26_Witness ==
    /\ continuous
    /\ pc = "fetch"
    /\ fetchResult = "none"
    /\ Cardinality(globalSeenSongs) = 2
    /\ seenSongs = {}

ValidKeysOf(songs) == { SongKey(songs[n]) : n \in { m \in 1..Len(songs) : IsValid(songs[m]) } }

\* C27: when runSingleSync starts with an empty process-lifetime map and its
\* fetch succeeds, the cycle map afterwards contains the key "artist - title"
\* of every valid fetched record, and keeps it while the records are matched,
\* rejected or written.
C27_FirstCycleCoversValidRecords ==
    /\ [][(pc = "fetch" /\ globalSeenSongs = {} /\ fetchResult' = "ok")
            => ValidKeysOf(lastFeed'.songs) \subseteq seenSongs']_vars
    /\ [][(pc \in {"match", "check", "add"}) => UNCHANGED seenSongs]_vars
    /\ []((pc \in {"match", "check", "add", "schedule", "done"}
           /\ fetchResult = "ok" /\ globalSeenSongs = seenSongs)
          => ValidKeysOf(lastFeed.songs) \subseteq seenSongs)

C27_Witness ==
    /\ pc = "done"
    /\ fetchResult = "ok"
    /\ Len(lastFeed.songs) = 2
    /\ \E n \in 1..2 : ~IsValid(lastFeed.songs[n])
    /\ Cardinality(seenSongs) = 1
    /\ seenSongs = ValidKeysOf(lastFeed.songs)
    /\ Len(outcomes) = 1

-----------------------------------------------------------------------------
(* The order of the scheduler's calls, checked under Spec and FairSpecSingle *)

\* The place of a call in the iteration of one record.
OpRank(op) ==
    CASE op = "FindBestSongMatchWithAlbum" -> 1
      [] op = "CheckTracksInPlaylist" -> 2
      [] op = "AddTracksToPlaylist" -> 3

\* The calls of the cycle so far are ordered by record and, within a record,
\* are match, then check, then write, none of them repeated or left out.
SequentialLog ==
    /\ \A k \in 1..Len(callLog) :
          /\ callLog[k].rec \in 1..Len(newSongs)
          /\ IF OpRank(callLog[k].op) = 1
             THEN callLog[k].rec = (IF k = 1 THEN 1 ELSE callLog[k - 1].rec + 1)
             ELSE /\ k > 1
                  /\ callLog[k - 1].rec = callLog[k].rec
                  /\ OpRank(callLog[k - 1].op) = OpRank(callLog[k].op) - 1
    /\ pc \in {"match", "check", "add"} =>
          \A k \in 1..Len(callLog) : callLog[k].rec <= i

InCycle == pc \in {"fetch", "match", "check", "add"}

\* C28: one cycle is active at a time and its records are processed one after
\* the other: for each record the calls are match, membership check, write in
\* that order, every call for record i precedes the first call for record
\* i+1, and a cycle starts only from runSync or after the sleep that follows
\* the return of the cycle before it.
C28_OneCycleSequentialRecords ==
    /\ [](SequentialLog)
    /\ [][(pc' = "fetch" /\ pc # "fetch") => pc \in {"resolve", "sleep"}]_vars
    /\ [][(pc' = "sleep" /\ pc # "sleep") => pc = "schedule"]_vars
    /\ [][(InCycle /\ ~InCycle')
            => (pc' \in {"schedule", "done"} /\ Len(outcomes') = Len(newSongs'))]_vars
    /\ [][(pc \in {"match", "check", "add"} /\ i' # i)
            => (i' = i + 1 /\ Len(outcomes') = i /\ pc' = "match")]_vars

C28_Witness ==
    /\ continuous
    /\ Len(callLog) = 5
    /\ callLog[3].rec = 1 /\ callLog[3].op = "AddTracksToPlaylist"
    /\ callLog[4].rec = 2 /\ callLog[5].op = "CheckTracksInPlaylist"
    /\ Cardinality(globalSeenSongs) = 2

CallsFor(op, rec) ==
    { k \in 1..Len(callLog) : callLog[k].op = op /\ callLog[k].rec = rec }

\* C29: in single-pass mode the run starts its only cycle with an empty cycle
\* map, fetches once, makes at most one match, one membership check and one
\* write per new record, never enters the loop of the continuous mode, and
\* terminates.
C29_SinglePassTerminates ==
    /\ <>(pc = "done")
    /\ [](pc \notin {"schedule", "sleep"})
    /\ [](pc = "fetch" => seenSongs = {})
    /\ [][(pc' = "fetch") => (pc \in {"resolve", "fetch"})]_vars
    /\ [][(pc = "fetch") => (pc' # "fetch" \/ UNCHANGED <<seenSongs, fetchResult>>)]_vars
    /\ [](\A k \in 1..Len(callLog) :
            /\ callLog[k].rec \in 1..Len(newSongs)
            /\ Cardinality(CallsFor(callLog[k].op, callLog[k].rec)) = 1)

C29_Witness ==
    /\ ~continuous
    /\ pc = "done"
    /\ fetchResult = "ok"
    /\ Len(newSongs) = 2
    /\ Len(outcomes) = 2
    /\ Len(callLog) = 6

-----------------------------------------------------------------------------
(* Song.IsValid, checked under SpecValid *)

\* C30: IsValid is true if and only if Artist and Title are both different
\* from the empty string; an artist or title of white space only is not empty,
\* so a song with such a field and a non-empty other field is valid.
C30_ValidIffBothNonEmpty ==
    vpc = "returned" =>
        /\ validResult <=> (Len(candidate.Artist) > 0 /\ Len(candidate.Title) > 0)
        /\ (candidate.Artist = "   " /\ candidate.Title = "So What") => validResult
        /\ (candidate.Artist = " " /\ candidate.Title = "\t") => validResult

C30_Witness ==
    /\ vpc = "returned"
    /\ candidate.Artist = "   "
    /\ candidate.Title = "So What"
    /\ validResult

-----------------------------------------------------------------------------
(* Behaviour of the scheduler over several cycles, checked under Spec *)

\* The iteration of the current record ended in this step with a failure.
RecordFailed ==
    /\ Len(outcomes') = Len(outcomes) + 1
    /\ Last(outcomes') \in Failures

TrackInTarget == songMatch.TrackID \in TracksOf(userPlaylists, targetPlaylist.ID)

\* The membership check of the current record is the last call and it failed.
CheckErrored ==
    /\ callLog # <<>>
    /\ Last(callLog).op = "CheckTracksInPlaylist"
    /\ Last(callLog).rec = i
    /\ Last(callLog).result = "error"

\* C32: with a membership check that reflects every earlier write, the
\* scheduler calls AddTracksToPlaylist for a track id that is already in the
\* target playlist only for a record whose membership check errored: without
\* check errors no cycle adds a track twice, also when two different feed
\* records match the same catalog track.
C32_DuplicateWriteOnlyAfterCheckError ==
    /\ [][(Called("AddTracksToPlaylist") /\ TrackInTarget) => CheckErrored]_vars
    /\ []((pc = "add" /\ ~CheckErrored) => ~TrackInTarget)

\* Two different records matched the same track: the first was written, the
\* second was found in the playlist and skipped.
C32_Witness ==
    /\ Len(newSongs) = 2
    /\ newSongs[1] # newSongs[2]
    /\ outcomes = <<"synced", "duplicate">>
    /\ Len(callLog) = 5
    /\ callLog[2].result = "absent"
    /\ callLog[5].result = "present"

-----------------------------------------------------------------------------
(* The key of the seen maps, checked under SpecKey *)

SameArtistAndTitle(a, b) == a.Artist = b.Artist /\ a.Title = b.Title

\* The second record of the pair was skipped although it is valid.
SecondSkipped ==
    /\ kpc = "returned"
    /\ IsValid(recordPair[2])
    /\ \A n \in 1..Len(pairResult) : pairResult[n] # recordPair[2]

\* C33: the in-memory guard skips a valid record only if an earlier record
\* with the same artist and the same title was seen: two records that differ
\* in artist or in title never share a key, also when the texts contain " - ".
C33_DistinctRecordsDistinctKeys ==
    kpc = "returned" =>
        /\ ~SameArtistAndTitle(recordPair[1], recordPair[2])
              => SongKey(recordPair[1]) # SongKey(recordPair[2])
        /\ SecondSkipped
              => (IsValid(recordPair[1])
                  /\ SameArtistAndTitle(recordPair[1], recordPair[2]))

-----------------------------------------------------------------------------
(* The matcher and the scheduler's threshold, checked under SpecMatch *)

\* The catalog's first artist has the name the feed gives, up to case and
\* surrounding white space.
SameArtist == HasText(artistQuery) /\ EqualFold(artistQuery, foundArtist)

-----------------------------------------------------------------------------
(* The collection of parseResponse, checked under SpecParse *)

\* v neither starts nor ends with a space.
NoOuterSpace(v) == Len(v) > 0 => (CharAt(v, 1) # " " /\ CharAt(v, Len(v)) # " ")

\* A string field of the entry holds nothing but white space.
BlankField(f) == f.kind = "string" /\ f.value # "" /\ ~HasText(f.value)

CleanSong(song) ==
    /\ NoOuterSpace(song.Artist) /\ NoOuterSpace(song.Title) /\ NoOuterSpace(song.Album)
    /\ Len(song.Artist) > 0 /\ Len(song.Title) > 0

\* C35: every song of the collection parseResponse builds and returns has
\* artist, title and album without leading or trailing white space and a
\* non-empty artist and title; a raw entry whose artist or title is
\* white space only adds nothing to the collection.
C35_CollectionIsTrimmedAndValid ==
    /\ [](\A n \in 1..Len(collection) : CleanSong(collection[n]))
    /\ [](ppc = "returned" =>
            \A n \in 1..Len(parseReturn.value) : CleanSong(parseReturn.value[n]))
    /\ [][(ParseStep /\ (BlankField(apiResponse[rawIndex].artistName)
                         \/ BlankField(apiResponse[rawIndex].trackName)))
            => collection' = collection]_vars

\* An entry with a blank title was dropped and an entry with padded fields
\* was kept, trimmed.
C35_Witness ==
    /\ ppc = "returned"
    /\ Len(apiResponse) = 2
    /\ BlankField(apiResponse[1].trackName)
    /\ apiResponse[2].artistName.value = " B "
    /\ Len(parseReturn.value) = 1
    /\ parseReturn.value[1].Artist = "B"

-----------------------------------------------------------------------------
(* CheckArtistInPlaylist, checked under SpecDuplicates *)

OverrideHint == "Use 'Add Anyway' to override."

ArtistReturned == acpc = "returned"

\* C36: CheckArtistInPlaylist returns a nil result and an error when the
\* top-tracks call or the membership call fails; for an artist without tracks
\* it returns HasDuplicates=false without a membership call; otherwise its
\* HasDuplicates and DuplicateTracks are those CheckDuplicates returned for the
\* top tracks, ArtistName is the first artist of the first track, and the
\* message carries the override hint exactly when duplicates exist.
C36_ArtistCheckDelegates ==
    ArtistReturned =>
        IF topTracksAnswer.err
        THEN artistReturn.err /\ artistReturn.result = "nil" /\ remoteChecks = <<>>
        ELSE IF topTracksAnswer.tracks = <<>>
        THEN /\ ~artistReturn.err
             /\ artistReturn.result.HasDuplicates = FALSE
             /\ artistReturn.result.DuplicateTracks = <<>>
             /\ remoteChecks = <<>>
             /\ dpc = "idle"
        ELSE /\ dpc = "returned"
             /\ dupTracks = topTracksAnswer.tracks
             /\ Len(remoteChecks) = 1
             /\ IF existsResults.err
                THEN artistReturn.err /\ artistReturn.result = "nil"
                ELSE /\ ~artistReturn.err
                     /\ LET r == artistReturn.result
                        IN  /\ r.HasDuplicates = dupReturn.result.HasDuplicates
                            /\ r.DuplicateTracks = dupReturn.result.DuplicateTracks
                            /\ r.HasDuplicates <=> (Flagged # {})
                            /\ Len(topTracksAnswer.artists) > 0
                                  => r.ArtistName = Head(topTracksAnswer.artists)
                            /\ Contains(r.Message, OverrideHint) <=> r.HasDuplicates

\* The artist's second top track is in the playlist, the first is not.
C36_Witness ==
    /\ ArtistReturned
    /\ ~artistReturn.err
    /\ Len(topTracksAnswer.tracks) = 2
    /\ Len(topTracksAnswer.artists) = 2
    /\ Flagged = {2}
    /\ artistReturn.result.ArtistName = "Test Artist"
    /\ artistReturn.result.DuplicateTracks = <<dupTracks[2]>>

-----------------------------------------------------------------------------
(* The matcher's failures, checked under SpecRecord *)

MatcherBack == mpc = "returned"

MatchFailedWith(reason) == MatcherBack /\ matchReturn.err = reason

EntriesOf(op, rec) ==
    { k \in 1..Len(callLog) : callLog[k].op = op /\ callLog[k].rec = rec }

\* C37: FindBestSongMatchWithAlbum returns an error and no match when the
\* artist query is empty or white space (before any catalog call), when the
\* artist search fails (before the top-tracks call) and when the artist has no
\* top tracks; the scheduler then counts the record as skipped and makes no
\* membership check and no write for it.
C37_MatcherFailuresWriteNothing ==
    /\ [](/\ (MatcherBack /\ TrimSpace(artistQuery) = "")
               => MatchFailedWith("artist query cannot be empty") /\ catalogCalls = <<>>
          /\ MatchFailedWith("failed to search for artist")
               => catalogCalls = <<"SearchArtist">>
          /\ (MatcherBack /\ topTracks = <<>>)
               => /\ matchReturn.err # ""
                  /\ MatchFailedWith("no tracks found for artist")
                        => catalogCalls = <<"SearchArtist", "GetArtistTopTracks">>
          /\ (MatcherBack /\ matchReturn.err # "") => DOMAIN matchReturn = { "err" }
          /\ \A k \in 1..Len(callLog) :
                (callLog[k].op = "FindBestSongMatchWithAlbum" /\ callLog[k].result = "error")
                   => /\ EntriesOf("CheckTracksInPlaylist", callLog[k].rec) = {}
                      /\ EntriesOf("AddTracksToPlaylist", callLog[k].rec) = {}
                      /\ outcomes[callLog[k].rec] = "no_match")
    /\ [][(pc = "match" /\ MatcherBack /\ matchReturn.err # "")
             => /\ userPlaylists' = userPlaylists
                /\ syncedCount' = syncedCount
                /\ skippedCount' = skippedCount + 1
                /\ pc' \notin { "check", "add" }]_vars

\* The catalog had no top tracks for the artist of the first record; the
\* record was skipped and the second record was written.
C37_Witness ==
    /\ Len(callLog) >= 2
    /\ callLog[1] = Call("FindBestSongMatchWithAlbum", 1, "error")
    /\ outcomes = <<"no_match", "synced">>
    /\ syncedCount = 1 /\ skippedCount = 1

\* A white-space artist query has been refused.
C37_BlankWitness == MatchFailedWith("artist query cannot be empty") /\ artistQuery = " "

\* The scheduler's matcher call found no top tracks.
C37_NoTracksWitness ==
    /\ pc = "match"
    /\ MatchFailedWith("no tracks found for artist")
    /\ topTracks = <<>>

-----------------------------------------------------------------------------
(* The tally of syncSongsToSpotify, checked under Spec *)

WritesWithoutError ==
    { k \in 1..Len(callLog) :
        callLog[k].op = "AddTracksToPlaylist" /\ callLog[k].result = "ok" }

\* C38: at the end of syncSongsToSpotify syncedCount + skippedCount is the
\* number of records passed in and syncedCount is the number of
\* AddTracksToPlaylist calls that returned without error; during the loop the
\* two counts add up to the number of records finished, and each finished
\* record raises exactly one of them by one.
C38_TallyCountsEachRecordOnce ==
    /\ [](/\ syncedCount + skippedCount = Len(outcomes)
          /\ syncedCount = Cardinality(WritesWithoutError)
          /\ (CycleOver /\ fetchResult = "ok")
                => syncedCount + skippedCount = Len(newSongs))
    /\ [][Len(outcomes') = Len(outcomes) + 1
             => \/ syncedCount' = syncedCount + 1 /\ skippedCount' = skippedCount
                \/ syncedCount' = syncedCount /\ skippedCount' = skippedCount + 1]_vars
    /\ [][(pc \in { "match", "check", "add" } /\ Len(outcomes') = Len(outcomes))
             => UNCHANGED <<syncedCount, skippedCount>>]_vars

\* Two records were passed in: the first was already in the playlist, the
\* second was written.
C38_Witness ==
    /\ CycleOver /\ fetchResult = "ok"
    /\ Len(newSongs) = 2
    /\ outcomes = <<"duplicate", "synced">>
    /\ syncedCount = 1 /\ skippedCount = 1

-----------------------------------------------------------------------------
(* CompleteAuth's error returns, checked under SpecAuth *)

AuthFailed == upc = "returned" /\ authErr # ""

\* C39: when CompleteAuth returns an error (state mismatch, failed code
\* exchange, failed verification of the current user) and IsAuthenticated()
\* was false before the call, IsAuthenticated() is false after it.
C39_FailedAuthLeavesUnauthenticated ==
    (AuthFailed /\ ~authBefore) => ~IsAuthenticated(authClient)

=============================================================================
